---- MODULE Spec2Model ----
(***************************************************************************)
(* A model of py-vista-turbo-serial: the Vista Turbo ASCII protocol codec  *)
(* (messages.py), the event taxonomy (events.py) and the state monitor     *)
(* (state_monitor.py), the read/send loop (communicator.py) and the        *)
(* message store and notifier of examples/pushover_example.py.             *)
(*                                                                         *)
(* A character is a one-character string; a Python str is a sequence of    *)
(* characters.  Python objects are records; a raised exception is a record *)
(* with an "exc" field naming its class.                                   *)
(***************************************************************************)
EXTENDS Integers, Sequences, FiniteSets, TLC

VARIABLES
    arming_status,    \* StateMonitor.arming_status: partition -> PartitionState
    zone_status,      \* StateMonitor.zone_status: zone -> ZoneState
    zone_partitions,  \* StateMonitor.zone_partitions: zone -> partition number
    zone_troubles,    \* StateMonitor.zone_troubles: zone -> set of cause names
    is_ready,         \* the local is_ready of StateMonitor.run
    pc,               \* "running": inside the for loop of run; "raised": run was left by an exception
    exc,              \* the exception that left run, or "none"
    event_code,       \* taxonomy: the event_code argument of event_for_code
    zone_or_user,     \* taxonomy: the zone_or_user argument of event_for_code
    zone_names,       \* taxonomy: the zones argument of event_for_code
    event,            \* taxonomy: the value event_for_code returned, or NoResult
    raw_message,      \* codec: the line handed to MessagePacket.parse
    parsed,           \* codec: what MessagePacket.parse returned or raised, or NoResult
    outgoing,         \* Communicator.outgoing: the messages queued for the panel
    written,          \* transport: what Serial.write was handed and took, in order
    report,           \* the last ZoneStatusReport folded into the monitor, as its holder sees it
    _messages,        \* MessageStore._messages
    _lock,            \* MessageStore._lock: the thread that holds it, or None
    added,            \* the number of MessageStore.add calls made; messages are numbered in that order
    reader_pc,        \* the position of the thread that calls MessageStore.add
    notifier_pc,      \* the position of the PushoverNotifier thread
    items,            \* the local items of get_all, then messages of PushoverNotifier.run
    batches,          \* the non-empty lists get_all has returned, in order
    _proxies,         \* PushoverNotifier._proxies
    _dry_run,         \* PushoverNotifier._dry_run
    loop_i,           \* the loop variable i of _do_notify_pushover
    attempts          \* the calls of _send_pushover made for the current notification

monitor_vars == <<arming_status, zone_status, zone_partitions, zone_troubles,
                  is_ready, pc, exc>>
events_vars == <<event_code, zone_or_user, zone_names, event>>
codec_vars == <<raw_message, parsed>>
transport_vars == <<outgoing, written>>
report_vars == <<report>>
store_vars == <<_messages, _lock, added, reader_pc, notifier_pc, items, batches>>
notifier_vars == <<_proxies, _dry_run, loop_i, attempts>>
store_vars_but_pc == <<_messages, _lock, added, reader_pc, items, batches>>
example_vars == <<store_vars, notifier_vars>>
vars == <<arming_status, zone_status, zone_partitions, zone_troubles,
          is_ready, pc, exc,
          event_code, zone_or_user, zone_names, event, raw_message, parsed,
          outgoing, written, report,
          _messages, _lock, added, reader_pc, notifier_pc, items, batches,
          _proxies, _dry_run, loop_i, attempts>>

NoResult == [exc |-> "pending"]

(***************************************************************************)
(* Bounds of the model.                                                    *)
(***************************************************************************)
\* zones a ZoneStatusReport / ZonePartitionReport may carry (its data length)
MaxZone == 2
\* partitions an ArmingStatusReport may carry (its data length)
MaxPartition == 1
\* the largest partition digit a ZonePartitionReport carries in the model
MaxPartitionDigit == 0
\* the longest data field of the frames handed to parse, the event
\* notifications (12 characters) and the frames of the tests apart
MaxData == 2
\* the calls of MessageStore.add made in a run of the example
MaxMessages == 3

(***************************************************************************)
(* Characters.                                                             *)
(***************************************************************************)
HexDigits == <<"0", "1", "2", "3", "4", "5", "6", "7",
               "8", "9", "A", "B", "C", "D", "E", "F">>

\* Python's ord() on the characters the model uses.
Ord ==
    [c \in {"0", "1", "2", "3", "4", "5", "6", "7", "8", "9"} |->
        CASE c = "0" -> 48 [] c = "1" -> 49 [] c = "2" -> 50 [] c = "3" -> 51
          [] c = "4" -> 52 [] c = "5" -> 53 [] c = "6" -> 54 [] c = "7" -> 55
          [] c = "8" -> 56 [] c = "9" -> 57] @@
    [c \in {"A", "B", "C", "D", "E", "F", "H", "N", "P", "Q", "S", "Z"} |->
        CASE c = "A" -> 65 [] c = "B" -> 66 [] c = "C" -> 67 [] c = "D" -> 68
          [] c = "E" -> 69 [] c = "F" -> 70 [] c = "H" -> 72 [] c = "N" -> 78
          [] c = "P" -> 80 [] c = "Q" -> 81 [] c = "S" -> 83 [] c = "Z" -> 90] @@
    [c \in {"a", "b", "c", "d", "e", "f", "h", "n", "p", "q", "s", "z"} |->
        CASE c = "a" -> 97 [] c = "b" -> 98 [] c = "c" -> 99 [] c = "d" -> 100
          [] c = "e" -> 101 [] c = "f" -> 102 [] c = "h" -> 104 [] c = "n" -> 110
          [] c = "p" -> 112 [] c = "q" -> 113 [] c = "s" -> 115 [] c = "z" -> 122] @@
    [c \in {" ", "x", "G", "g"} |->
        CASE c = " " -> 32 [] c = "x" -> 120 [] c = "G" -> 71 [] c = "g" -> 103]

\* string.ascii_uppercase, restricted to the characters of Ord
ascii_uppercase == {c \in DOMAIN Ord : Ord[c] >= 65 /\ Ord[c] <= 90}

\* The value of one hexadecimal digit as int(c, 16) reads it, -1 when c is none.
HexDigitValue(c) ==
    IF Ord[c] >= 48 /\ Ord[c] <= 57 THEN Ord[c] - 48
    ELSE IF Ord[c] >= 65 /\ Ord[c] <= 70 THEN Ord[c] - 55
    ELSE IF Ord[c] >= 97 /\ Ord[c] <= 102 THEN Ord[c] - 87
    ELSE -1

\* The value of one decimal digit as int(c) reads it, -1 when c is none.
DecDigitValue(c) ==
    IF Ord[c] >= 48 /\ Ord[c] <= 57 THEN Ord[c] - 48 ELSE -1

\* A call that returns normally yields Return(value); a call that raises yields
\* a record whose exc field names the exception class.
Return(v) == [exc |-> "none", value |-> v]
ValueError == [exc |-> "ValueError"]
Raised(r) == r.exc # "none"

\* int(s, base) on a string of at most two characters of Ord's domain (no
\* sign, no underscore): the number, or -1 where int() raises ValueError.
\* Surrounding blanks are stripped as int() strips them.
RECURSIVE IntOf(_, _)
IntOf(s, base) ==
    LET Digit(c) == IF base = 16 THEN HexDigitValue(c) ELSE DecDigitValue(c)
    IN  IF Len(s) = 0 THEN -1
        ELSE IF s[1] = " " THEN IntOf(Tail(s), base)
        ELSE IF s[Len(s)] = " " THEN IntOf(SubSeq(s, 1, Len(s) - 1), base)
        ELSE IF \E i \in 1..Len(s) : Digit(s[i]) < 0 THEN -1
        ELSE IF Len(s) = 1 THEN Digit(s[1])
        ELSE Digit(s[1]) * base + Digit(s[2])

\* Python's s[a:b] for 0 <= a, and b either >= 0 or counted from the end.
Slice(s, a, b) ==
    LET e == IF b < 0 THEN Len(s) + b ELSE IF b > Len(s) THEN Len(s) ELSE b
    IN  IF a >= e THEN <<>> ELSE SubSeq(s, a + 1, e)

(***************************************************************************)
(* messages.py: the value types.                                           *)
(***************************************************************************)
\* class PartitionState(Enum)
PartitionState == {"HOME", "DISARMED", "AWAY"}

\* n & bit = bit, for a bit 1, 2, 4 or 8
BitSet(n, bit) == (n \div bit) % 2 = 1

\* ZoneState.__init__(state)
ZoneState(state) ==
    [_state_numeric |-> state,
     closed   |-> ~BitSet(state, 1),
     open     |-> BitSet(state, 1),
     trouble  |-> BitSet(state, 2),
     alarm    |-> BitSet(state, 4),
     bypassed |-> BitSet(state, 8)]

\* str.join: the strings of seq with sep between them
RECURSIVE Join(_, _)
Join(seq, sep) ==
    IF seq = <<>> THEN ""
    ELSE IF Len(seq) = 1 THEN seq[1]
    ELSE seq[1] \o sep \o Join(Tail(seq), sep)

\* ZoneState.__str__ with ALARM listed before TROUBLE
ZoneState__str__alarm_first(self) ==
    LET values == <<IF self.closed THEN "CLOSED" ELSE "None",
                    IF self.open THEN "OPEN" ELSE "None",
                    IF self.alarm THEN "ALARM" ELSE "None",
                    IF self.trouble THEN "TROUBLE" ELSE "None",
                    IF self.bypassed THEN "BYPASSED" ELSE "None">>
    IN  Join(SelectSeq(values, LAMBDA x : x # "None"), "|")

\* ZoneState.__str__
ZoneState__str__(self) ==
    LET values == <<IF self.closed THEN "CLOSED" ELSE "None",
                    IF self.open THEN "OPEN" ELSE "None",
                    IF self.trouble THEN "TROUBLE" ELSE "None",
                    IF self.alarm THEN "ALARM" ELSE "None",
                    IF self.bypassed THEN "BYPASSED" ELSE "None">>
    IN  Join(SelectSeq(values, LAMBDA x : x # "None"), "|")

(***************************************************************************)
(* events.py: the event taxonomy.  ClassOrder lists the subclasses of      *)
(* SystemEvent in the order their class statements run, the order          *)
(* __subclasses__() reports them in.                                       *)
(***************************************************************************)
ClassOrder ==
    <<"AlarmEvent", "PerimeterAlarm", "EntryExitAlarm", "InteriorFollowerAlarm",
      "FireAlarm", "AudiblePanicAlarm", "SilentPanicAlarm", "Aux24hrAlarm",
      "DuressAlarm", "OtherAlarmRestore", "RfLowBattery", "RfLowBatteryRestore",
      "OtherTrouble", "OtherTroubleRestore", "ArmDisarmEvent", "ArmStay",
      "Disarm", "Arm", "LowBattery", "LowBatteryRestore", "AcFail", "AcRestore",
      "AlarmCancel", "OtherBypass", "OtherUnbypass", "DayNightAlarm",
      "DayNightRestore", "FailToDisarm", "FailToArm", "FaultEvent",
      "FaultRestoreEvent", "LowBatteryExtended", "LowBatteryRestoreExtended">>

Classes == {ClassOrder[i] : i \in DOMAIN ClassOrder}

AlarmKinds ==
    {"PerimeterAlarm", "EntryExitAlarm", "InteriorFollowerAlarm", "FireAlarm",
     "AudiblePanicAlarm", "SilentPanicAlarm", "Aux24hrAlarm", "DuressAlarm"}

ArmDisarmKinds == {"ArmStay", "Disarm", "Arm"}

\* The base class named in each class statement.
Base(cls) ==
    IF cls \in AlarmKinds THEN "AlarmEvent"
    ELSE IF cls \in ArmDisarmKinds THEN "ArmDisarmEvent"
    ELSE "SystemEvent"

\* The NAME attributes the class statements set.
OwnNAME ==
    [cls \in {"SystemEvent"} |-> "Unknown Event"] @@
    [cls \in AlarmKinds |->
        CASE cls = "PerimeterAlarm" -> "Perimeter Alarm"
          [] cls = "EntryExitAlarm" -> "Entry/Exit Alarm"
          [] cls = "InteriorFollowerAlarm" -> "Interior Follower Alarm"
          [] cls = "FireAlarm" -> "Fire Alarm"
          [] cls = "AudiblePanicAlarm" -> "Audible Panic Alarm"
          [] cls = "SilentPanicAlarm" -> "Silent Panic Alarm"
          [] cls = "Aux24hrAlarm" -> "24-Hour Auxiliary"
          [] cls = "DuressAlarm" -> "Duress Alarm"] @@
    [cls \in ArmDisarmKinds |->
        CASE cls = "ArmStay" -> "Arm Stay/Home"
          [] cls = "Disarm" -> "Disarm"
          [] cls = "Arm" -> "Arm"] @@
    [cls \in Classes \ (AlarmKinds \cup ArmDisarmKinds \cup {"AlarmEvent", "ArmDisarmEvent"}) |->
        CASE cls = "OtherAlarmRestore" -> "Other Alarm Restore"
          [] cls = "RfLowBattery" -> "RF Low Battery"
          [] cls = "RfLowBatteryRestore" -> "RF Low Battery Restore"
          [] cls = "OtherTrouble" -> "Other Trouble"
          [] cls = "OtherTroubleRestore" -> "Other Trouble Restore"
          [] cls = "LowBattery" -> "Low Battery"
          [] cls = "LowBatteryRestore" -> "Low Battery Restore"
          [] cls = "AcFail" -> "AC Fail"
          [] cls = "AcRestore" -> "AC Restore"
          [] cls = "AlarmCancel" -> "Alarm Cancel"
          [] cls = "OtherBypass" -> "Other Bypass"
          [] cls = "OtherUnbypass" -> "Other Unbypass"
          [] cls = "DayNightAlarm" -> "Day/Night Alarm"
          [] cls = "DayNightRestore" -> "Day/Night Restore"
          [] cls = "FailToDisarm" -> "Fail to Disarm"
          [] cls = "FailToArm" -> "Fail to Arm"
          [] cls = "FaultEvent" -> "Fault"
          [] cls = "FaultRestoreEvent" -> "Fault Restore"
          [] cls = "LowBatteryExtended" -> "Low Battery"
          [] cls = "LowBatteryRestoreExtended" -> "Low Battery Restore"]

\* The CODE attributes the class statements set (0x.. written in decimal).
OwnCODE ==
    [cls \in {"SystemEvent"} |-> 0] @@
    [cls \in AlarmKinds |->
        CASE cls = "PerimeterAlarm" -> 0
          [] cls = "EntryExitAlarm" -> 1
          [] cls = "InteriorFollowerAlarm" -> 4
          [] cls = "FireAlarm" -> 6
          [] cls = "AudiblePanicAlarm" -> 7
          [] cls = "SilentPanicAlarm" -> 8
          [] cls = "Aux24hrAlarm" -> 9
          [] cls = "DuressAlarm" -> 12] @@
    [cls \in ArmDisarmKinds |->
        CASE cls = "ArmStay" -> 21
          [] cls = "Disarm" -> 22
          [] cls = "Arm" -> 24] @@
    [cls \in Classes \ (AlarmKinds \cup ArmDisarmKinds \cup {"AlarmEvent", "ArmDisarmEvent"}) |->
        CASE cls = "OtherAlarmRestore" -> 14
          [] cls = "RfLowBattery" -> 15
          [] cls = "RfLowBatteryRestore" -> 16
          [] cls = "OtherTrouble" -> 17
          [] cls = "OtherTroubleRestore" -> 18
          [] cls = "LowBattery" -> 26
          [] cls = "LowBatteryRestore" -> 27
          [] cls = "AcFail" -> 28
          [] cls = "AcRestore" -> 29
          [] cls = "AlarmCancel" -> 32
          [] cls = "OtherBypass" -> 33
          [] cls = "OtherUnbypass" -> 34
          [] cls = "DayNightAlarm" -> 35
          [] cls = "DayNightRestore" -> 36
          [] cls = "FailToDisarm" -> 39
          [] cls = "FailToArm" -> 40
          [] cls = "FaultEvent" -> 43
          [] cls = "FaultRestoreEvent" -> 44
          [] cls = "LowBatteryExtended" -> 41
          [] cls = "LowBatteryRestoreExtended" -> 42]

\* The IS_ZONE attributes the class statements set.
OwnIS_ZONE ==
    [cls \in {"SystemEvent"} |-> TRUE] @@
    [cls \in {"ArmDisarmEvent", "AlarmCancel"} |-> FALSE]

\* Attribute lookup along the base classes: klass.NAME, klass.CODE, klass.IS_ZONE.
RECURSIVE NAME(_)
NAME(cls) == IF cls \in DOMAIN OwnNAME THEN OwnNAME[cls] ELSE NAME(Base(cls))

RECURSIVE CODE(_)
CODE(cls) == IF cls \in DOMAIN OwnCODE THEN OwnCODE[cls] ELSE CODE(Base(cls))

RECURSIVE IS_ZONE(_)
IS_ZONE(cls) == IF cls \in DOMAIN OwnIS_ZONE THEN OwnIS_ZONE[cls] ELSE IS_ZONE(Base(cls))

\* klass.__mro__: the class and its base classes
RECURSIVE Mro(_)
Mro(klass) ==
    IF klass \in Classes THEN {klass} \cup Mro(Base(klass)) ELSE {klass, "object"}

\* cls.__subclasses__(): the direct subclasses, in definition order
Subclasses(cls) ==
    SelectSeq(ClassOrder, LAMBDA c : Base(c) = cls)

\* subclasses_recursive(cls): direct + indirect
RECURSIVE subclasses_recursive(_)
subclasses_recursive(cls) ==
    LET direct == Subclasses(cls)
        Indirect[i \in 0..Len(direct)] ==
            IF i = 0 THEN <<>>
            ELSE Indirect[i - 1] \o subclasses_recursive(direct[i])
    IN  direct \o Indirect[Len(direct)]

\* SystemEvent.__init__ through a subclass klass
SystemEvent(klass, subject, subject_name) ==
    [cls |-> klass, mro |-> Mro(klass), NAME |-> NAME(klass),
     zone_or_user |-> subject, zone_or_user_name |-> subject_name]

\* UnknownEvent.__init__; NAME is the repr, which spells out code and zone_or_user
UnknownEvent(code, subject) ==
    [cls |-> "UnknownEvent", mro |-> Mro("UnknownEvent"),
     NAME |-> "<UnknownEvent(code, code_hex, zone_or_user)>",
     code |-> code, zone_or_user |-> subject]

\* dict.get(key): the value, or None
None == "None"
DictGet(d, key) == IF key \in DOMAIN d THEN d[key] ELSE None

\* The classes event_for_code iterates over, in its order.
MatchedKinds == subclasses_recursive("SystemEvent")

\* SystemEvent.event_for_code(event_code, zone_or_user, zones)
event_for_code(code, subject, zones) ==
    LET kinds == MatchedKinds
        hits == {i \in DOMAIN kinds : CODE(kinds[i]) = code}
    IN  IF hits = {} THEN UnknownEvent(code, subject)
        ELSE LET first == CHOOSE i \in hits : \A j \in hits : i <= j
                 klass == kinds[first]
             IN  IF IS_ZONE(klass)
                 THEN SystemEvent(klass, subject, DictGet(zones, subject))
                 ELSE SystemEvent(klass, subject, None)

(***************************************************************************)
(* messages.py: the data decoders of the report variants.                  *)
(***************************************************************************)
\* ArmingStatusReport.__init__: partition_state from data
DecodePartitionState_lenient(data) ==
    Return([idx \in 1..Len(data) |->
               CASE data[idx] = "H" -> "HOME"
                 [] data[idx] = "D" -> "DISARMED"
                 [] data[idx] = "A" -> "AWAY"
                 [] OTHER -> "UNKNOWN"])

\* ArmingStatusReport.__init__: partition_state from data
DecodePartitionState(data) ==
    IF \E i \in 1..Len(data) : data[i] \notin {"H", "D", "A"}
    THEN LET bad == CHOOSE i \in 1..Len(data) :
                        /\ data[i] \notin {"H", "D", "A"}
                        /\ \A j \in 1..(i - 1) : data[j] \in {"H", "D", "A"}
         IN  [exc |-> "InvalidMessageException", val |-> data[bad], data |-> data]
    ELSE Return([idx \in 1..Len(data) |->
                    CASE data[idx] = "H" -> "HOME"
                      [] data[idx] = "D" -> "DISARMED"
                      [] data[idx] = "A" -> "AWAY"])

\* ZoneStatusReport.__init__: zones from data
DecodeZones(data) ==
    IF \E i \in 1..Len(data) : IntOf(<<data[i]>>, 16) < 0
    THEN ValueError
    ELSE Return([idx \in 1..Len(data) |-> ZoneState(IntOf(<<data[idx]>>, 16))])

\* ZonePartitionReport.__init__ with idx rather than idx + 1 as the key
DecodePartitions_zero_indexed(data) ==
    IF \E i \in 1..Len(data) : IntOf(<<data[i]>>, 10) < 0
    THEN ValueError
    ELSE Return([idx \in 0..(Len(data) - 1) |-> IntOf(<<data[idx + 1]>>, 10)])

\* ZonePartitionReport.__init__: partitions from data
DecodePartitions(data) ==
    IF \E i \in 1..Len(data) : IntOf(<<data[i]>>, 10) < 0
    THEN ValueError
    ELSE Return([idx \in 1..Len(data) |-> IntOf(<<data[idx]>>, 10)])

(***************************************************************************)
(* messages.py: MessagePacket and its variants.                            *)
(***************************************************************************)
\* sum(ord(c) for c in s)
RECURSIVE SumOrd(_)
SumOrd(s) == IF s = <<>> THEN 0 ELSE Ord[Head(s)] + SumOrd(Tail(s))

\* -(n % 256) & 0xFF
NegateByte(n) == (256 - (n % 256)) % 256

\* '%2X' % v: upper-case hexadecimal, padded with blanks to two characters
Format2X(v) ==
    IF v < 16 THEN <<" ", HexDigits[v + 1]>>
    ELSE <<HexDigits[(v \div 16) + 1], HexDigits[(v % 16) + 1]>>

\* the crc of MessagePacket._parse_message, computed over raw_message[:-2]
Crc(raw) == Format2X(NegateByte(SumOrd(Slice(raw, 0, -2))))

\* raw_message[-2:]
LastTwo(raw) == IF Len(raw) <= 2 THEN raw ELSE SubSeq(raw, Len(raw) - 1, Len(raw))

\* _parse_message with the checksum compared before the length
_parse_message_crc_first(raw) ==
    LET msglen == IntOf(Slice(raw, 0, 2), 16)
    IN  IF msglen < 0 THEN ValueError
        ELSE IF Crc(raw) # LastTwo(raw)
        THEN [exc |-> "MessageChecksumException", raw_message |-> raw,
              expected_crc |-> LastTwo(raw), actual_crc |-> Crc(raw)]
        ELSE IF Len(raw) # msglen
        THEN [exc |-> "InvalidMessageLengthException", raw_message |-> raw,
              expected_len |-> msglen, actual_len |-> Len(raw)]
        ELSE IF Len(raw) < 4 THEN [exc |-> "IndexError", raw_message |-> raw]
        ELSE Return(<<raw[3], raw[4], Slice(raw, 4, -4)>>)

\* MessagePacket._parse_message: Return(<<msgtype, subtype, data>>) or the
\* exception raised
_parse_message(raw) ==
    LET msglen == IntOf(Slice(raw, 0, 2), 16)
    IN  IF msglen < 0 THEN ValueError
        ELSE IF Len(raw) # msglen
        THEN [exc |-> "InvalidMessageLengthException", raw_message |-> raw,
              expected_len |-> msglen, actual_len |-> Len(raw)]
        ELSE IF Crc(raw) # LastTwo(raw)
        THEN [exc |-> "MessageChecksumException", raw_message |-> raw,
              expected_crc |-> LastTwo(raw), actual_crc |-> Crc(raw)]
        ELSE IF Len(raw) < 4 THEN [exc |-> "IndexError", raw_message |-> raw]
        ELSE Return(<<raw[3], raw[4], Slice(raw, 4, -4)>>)

\* MessagePacket.__init__
MessagePacket(klass, raw, data, from_panel) ==
    [type |-> klass, raw_message |-> raw, _data |-> data, from_panel |-> from_panel]

\* ArmAwayMessage.__init__, ArmHomeMessage.__init__, DisarmMessage.__init__
ArmMessage(klass, raw, data, from_panel) ==
    LET user == IntOf(Slice(data, 0, 2), 16)
    IN  IF user < 0 THEN ValueError
        ELSE Return(MessagePacket(klass, raw, data, from_panel) @@
                    [user |-> user, user_code |-> Slice(data, 2, Len(data))])

\* ArmingStatusReport.__init__
ArmingStatusReport(raw, data, from_panel) ==
    LET ps == DecodePartitionState(data)
    IN  IF Raised(ps) THEN ps @@ [raw_message |-> raw]
        ELSE Return(MessagePacket("ArmingStatusReport", raw, data, from_panel) @@
                    [partition_state |-> ps.value])

\* ZoneStatusReport.__init__
ZoneStatusReport(raw, data, from_panel) ==
    LET zs == DecodeZones(data)
    IN  IF Raised(zs) THEN zs
        ELSE Return(MessagePacket("ZoneStatusReport", raw, data, from_panel) @@
                    [zones |-> zs.value])

\* ZonePartitionReport.__init__
ZonePartitionReport(raw, data, from_panel) ==
    LET zp == DecodePartitions(data)
    IN  IF Raised(zp) THEN zp
        ELSE Return(MessagePacket("ZonePartitionReport", raw, data, from_panel) @@
                    [partitions |-> zp.value])

\* SystemEventNotification.__init__: the call of event_for_code passes two
\* of its three required arguments, which raises TypeError
SystemEventNotification(raw, data, from_panel) ==
    LET _event_type == IntOf(Slice(data, 0, 2), 16)
        subject == IntOf(Slice(data, 2, 4), 10)
    IN  IF _event_type < 0 THEN ValueError
        ELSE IF subject < 0 THEN ValueError
        ELSE [exc |-> "TypeError", raw_message |-> raw]

\* the registry with ArmHomeMessage taking the subtype A as well
Registry_overlapping ==
    <<[klass |-> "UnknownMessage", MSG_TYPES |-> {}, MSG_SUBTYPES |-> {}],
      [klass |-> "ArmHomeMessage", MSG_TYPES |-> {"A", "a"}, MSG_SUBTYPES |-> {"H", "h", "A"}],
      [klass |-> "ArmAwayMessage", MSG_TYPES |-> {"A", "a"}, MSG_SUBTYPES |-> {"A", "a"}],
      [klass |-> "DisarmMessage", MSG_TYPES |-> {"A", "a"}, MSG_SUBTYPES |-> {"D", "d"}],
      [klass |-> "ArmingStatusRequest", MSG_TYPES |-> {"a"}, MSG_SUBTYPES |-> {"s"}],
      [klass |-> "ArmingStatusReport", MSG_TYPES |-> {"A"}, MSG_SUBTYPES |-> {"S"}],
      [klass |-> "ZoneStatusRequest", MSG_TYPES |-> {"z"}, MSG_SUBTYPES |-> {"s"}],
      [klass |-> "ZoneStatusReport", MSG_TYPES |-> {"Z"}, MSG_SUBTYPES |-> {"S"}],
      [klass |-> "ZonePartitionRequest", MSG_TYPES |-> {"z"}, MSG_SUBTYPES |-> {"p"}],
      [klass |-> "ZonePartitionReport", MSG_TYPES |-> {"Z"}, MSG_SUBTYPES |-> {"P"}],
      [klass |-> "SystemEventNotification", MSG_TYPES |-> {"N"}, MSG_SUBTYPES |-> {"Q"}]>>

\* MessagePacket.__subclasses__() with each class's MSG_TYPES and MSG_SUBTYPES
Registry ==
    <<[klass |-> "UnknownMessage", MSG_TYPES |-> {}, MSG_SUBTYPES |-> {}],
      [klass |-> "ArmAwayMessage", MSG_TYPES |-> {"A", "a"}, MSG_SUBTYPES |-> {"A", "a"}],
      [klass |-> "ArmHomeMessage", MSG_TYPES |-> {"A", "a"}, MSG_SUBTYPES |-> {"H", "h"}],
      [klass |-> "DisarmMessage", MSG_TYPES |-> {"A", "a"}, MSG_SUBTYPES |-> {"D", "d"}],
      [klass |-> "ArmingStatusRequest", MSG_TYPES |-> {"a"}, MSG_SUBTYPES |-> {"s"}],
      [klass |-> "ArmingStatusReport", MSG_TYPES |-> {"A"}, MSG_SUBTYPES |-> {"S"}],
      [klass |-> "ZoneStatusRequest", MSG_TYPES |-> {"z"}, MSG_SUBTYPES |-> {"s"}],
      [klass |-> "ZoneStatusReport", MSG_TYPES |-> {"Z"}, MSG_SUBTYPES |-> {"S"}],
      [klass |-> "ZonePartitionRequest", MSG_TYPES |-> {"z"}, MSG_SUBTYPES |-> {"p"}],
      [klass |-> "ZonePartitionReport", MSG_TYPES |-> {"Z"}, MSG_SUBTYPES |-> {"P"}],
      [klass |-> "SystemEventNotification", MSG_TYPES |-> {"N"}, MSG_SUBTYPES |-> {"Q"}]>>

\* klass(raw_message=..., data=..., from_panel=...)
Construct(klass, raw, data, from_panel) ==
    IF klass \in {"ArmAwayMessage", "ArmHomeMessage", "DisarmMessage"}
    THEN ArmMessage(klass, raw, data, from_panel)
    ELSE IF klass = "ArmingStatusReport" THEN ArmingStatusReport(raw, data, from_panel)
    ELSE IF klass = "ZoneStatusReport" THEN ZoneStatusReport(raw, data, from_panel)
    ELSE IF klass = "ZonePartitionReport" THEN ZonePartitionReport(raw, data, from_panel)
    ELSE IF klass = "SystemEventNotification"
    THEN SystemEventNotification(raw, data, from_panel)
    ELSE Return(MessagePacket(klass, raw, data, from_panel))

\* parse with from_panel true whatever the case of the type
parse_from_panel_always(raw) ==
    LET fields == _parse_message(raw)
    IN  IF Raised(fields) THEN fields
        ELSE LET msgtype == fields.value[1]
                 subtype == fields.value[2]
                 data == fields.value[3]
                 hits == {i \in DOMAIN Registry :
                             /\ msgtype \in Registry[i].MSG_TYPES
                             /\ subtype \in Registry[i].MSG_SUBTYPES}
             IN  IF hits = {}
                 THEN Return(MessagePacket("UnknownMessage", raw, data, TRUE) @@
                             [msg_type |-> msgtype, msg_subtype |-> subtype])
                 ELSE LET first == CHOOSE i \in hits : \A j \in hits : i <= j
                      IN  Construct(Registry[first].klass, raw, data, TRUE)

\* MessagePacket.parse
parse(raw) ==
    LET fields == _parse_message(raw)
    IN  IF Raised(fields) THEN fields
        ELSE LET msgtype == fields.value[1]
                 subtype == fields.value[2]
                 data == fields.value[3]
                 from_panel == msgtype \in ascii_uppercase
                 hits == {i \in DOMAIN Registry :
                             /\ msgtype \in Registry[i].MSG_TYPES
                             /\ subtype \in Registry[i].MSG_SUBTYPES}
             IN  IF hits = {}
                 THEN Return(MessagePacket("UnknownMessage", raw, data, from_panel) @@
                             [msg_type |-> msgtype, msg_subtype |-> subtype])
                 ELSE LET first == CHOOSE i \in hits : \A j \in hits : i <= j
                      IN  Construct(Registry[first].klass, raw, data, from_panel)

\* generate with the checksum of the zone-status request copied into the
\* zone-partition request
generate_copied_checksum(klass) ==
    CASE klass = "ArmingStatusRequest" -> Return(<<"0", "8", "a", "s", "0", "0", "6", "4">>)
      [] klass = "ZoneStatusRequest" -> Return(<<"0", "8", "z", "s", "0", "0", "4", "B">>)
      [] klass = "ZonePartitionRequest" -> Return(<<"0", "8", "z", "p", "0", "0", "4", "B">>)
      [] OTHER -> [exc |-> "NotImplementedError"]

\* klass.generate(): the literal of the three requests; MessagePacket.generate,
\* which the other classes inherit, raises
generate(klass) ==
    CASE klass = "ArmingStatusRequest" -> Return(<<"0", "8", "a", "s", "0", "0", "6", "4">>)
      [] klass = "ZoneStatusRequest" -> Return(<<"0", "8", "z", "s", "0", "0", "4", "B">>)
      [] klass = "ZonePartitionRequest" -> Return(<<"0", "8", "z", "p", "0", "0", "4", "E">>)
      [] OTHER -> [exc |-> "NotImplementedError"]

(***************************************************************************)
(* state_monitor.py: StateMonitor.                                         *)
(*                                                                         *)
(* A handler yields its outcome: the two maps it may change as it leaves   *)
(* them, the exception it raised ("none" when it returned) and the log     *)
(* records written so far.                                                 *)
(***************************************************************************)
Log(level, msg) == [level |-> level, msg |-> msg]

Outcome(zs, zt, e, logs) ==
    [zone_status |-> zs, zone_troubles |-> zt, exc |-> e, log |-> logs]

\* _handle_alarm with the alarm flag flipped rather than set
_handle_alarm_toggling(evt, logs) ==
    LET z == evt.zone_or_user
        l1 == Append(logs, Log("debug", "Event: %s in zone %d"))
    IN  IF z \notin DOMAIN zone_status
        THEN Outcome(zone_status, zone_troubles, "KeyError", l1)
        ELSE Outcome([zone_status EXCEPT ![z].alarm = ~zone_status[z].alarm],
                     zone_troubles, "none",
                     Append(l1, Log("info", "CHANGE zone %d alarm state to True")))

\* StateMonitor._handle_alarm
_handle_alarm(evt, logs) ==
    LET z == evt.zone_or_user
        l1 == Append(logs, Log("debug", "Event: %s in zone %d"))
    IN  IF z \notin DOMAIN zone_status
        THEN Outcome(zone_status, zone_troubles, "KeyError", l1)
        ELSE IF zone_status[z].alarm
        THEN Outcome(zone_status, zone_troubles, "none",
                     Append(l1, Log("warning",
                         "Got %s event for zone %d but zone is already in alarm")))
        ELSE Outcome([zone_status EXCEPT ![z].alarm = TRUE], zone_troubles, "none",
                     Append(l1, Log("info", "CHANGE zone %d alarm state to True")))

\* _handle_alarm_restore that logs the change and leaves the flag set
_handle_alarm_restore_keeping(evt, logs) ==
    LET z == evt.zone_or_user
        l1 == Append(logs, Log("debug", "Got OtherAlarmRestore event for zone %d"))
    IN  IF z \notin DOMAIN zone_status
        THEN Outcome(zone_status, zone_troubles, "KeyError", l1)
        ELSE IF zone_status[z].alarm
        THEN Outcome(zone_status, zone_troubles, "none",
                     Append(l1, Log("info", "CHANGE zone %d alarm state to False")))
        ELSE Outcome(zone_status, zone_troubles, "none",
                     Append(l1, Log("warning",
                         "Got %s event for zone %d but zone is not in alarm")))

\* StateMonitor._handle_alarm_restore
_handle_alarm_restore(evt, logs) ==
    LET z == evt.zone_or_user
        l1 == Append(logs, Log("debug", "Got OtherAlarmRestore event for zone %d"))
    IN  IF z \notin DOMAIN zone_status
        THEN Outcome(zone_status, zone_troubles, "KeyError", l1)
        ELSE IF zone_status[z].alarm
        THEN Outcome([zone_status EXCEPT ![z].alarm = FALSE], zone_troubles, "none",
                     Append(l1, Log("info", "CHANGE zone %d alarm state to False")))
        ELSE Outcome(zone_status, zone_troubles, "none",
                     Append(l1, Log("warning",
                         "Got %s event for zone %d but zone is not in alarm")))

\* StateMonitor._handle_zone_trouble
_handle_zone_trouble(evt, logs) ==
    LET z == evt.zone_or_user
        l1 == Append(logs, Log("debug", "Got %s event for zone %d"))
    IN  IF z \notin DOMAIN zone_status
        THEN Outcome(zone_status, zone_troubles, "KeyError", l1)
        ELSE IF zone_status[z].trouble
        THEN IF z \notin DOMAIN zone_troubles
             THEN Outcome(zone_status, zone_troubles, "KeyError", l1)
             ELSE IF evt.NAME \in zone_troubles[z]
             THEN Outcome(zone_status, zone_troubles, "none",
                          Append(l1, Log("debug", "Got another %s message for zone %d")))
             ELSE Outcome(zone_status,
                          [zone_troubles EXCEPT ![z] = zone_troubles[z] \cup {evt.NAME}],
                          "none",
                          Append(l1, Log("info", "ADD zone %s trouble cause: %s")))
        ELSE LET l2 == Append(l1, Log("info", "CHANGE zone %d is in trouble: %s"))
             IN  IF z \notin DOMAIN zone_troubles
                 THEN Outcome(zone_status, zone_troubles, "KeyError", l2)
                 ELSE Outcome([zone_status EXCEPT ![z].trouble = TRUE],
                              [zone_troubles EXCEPT ![z] = zone_troubles[z] \cup {evt.NAME}],
                              "none", l2)

\* StateMonitor._handle_zone_trouble_restore
_handle_zone_trouble_restore(evt, logs) ==
    LET z == evt.zone_or_user
        l1 == Append(logs, Log("debug", "Got %s event for zone %d"))
    IN  IF z \notin DOMAIN zone_status
        THEN Outcome(zone_status, zone_troubles, "KeyError", l1)
        ELSE IF zone_status[z].trouble
        THEN IF z \notin DOMAIN zone_troubles
             THEN Outcome(zone_status, zone_troubles, "KeyError", l1)
             ELSE LET absent == evt.NAME \notin zone_troubles[z]
                      l2 == IF absent
                            THEN Append(l1, Log("warning",
                                     "Got %s for zone %d but zone trouble causes are: %s"))
                            ELSE Append(l1, Log("info", "REMOVE zone %s trouble cause: %s"))
                      causes == IF absent THEN zone_troubles[z]
                                ELSE zone_troubles[z] \ {evt.NAME}
                  IN  IF causes = {}
                      THEN Outcome([zone_status EXCEPT ![z].trouble = FALSE],
                                   [zone_troubles EXCEPT ![z] = causes], "none",
                                   Append(l2, Log("info",
                                       "CHANGE zone %d is no longer in trouble")))
                      ELSE Outcome(zone_status, [zone_troubles EXCEPT ![z] = causes],
                                   "none", l2)
        ELSE Outcome(zone_status, zone_troubles, "none",
                     Append(l1, Log("warning",
                         "Got %s for zone %d but zone is not in trouble")))

\* _handle_zone_bypass that bypasses every zone
_handle_zone_bypass_every_zone(evt, logs) ==
    LET z == evt.zone_or_user
    IN  IF z \notin DOMAIN zone_status
        THEN Outcome(zone_status, zone_troubles, "KeyError", logs)
        ELSE IF zone_status[z].bypassed
        THEN Outcome(zone_status, zone_troubles, "none",
                     Append(logs, Log("debug", "Got another %s message for zone %d")))
        ELSE Outcome([y \in DOMAIN zone_status |->
                         [zone_status[y] EXCEPT !.bypassed = TRUE]],
                     zone_troubles, "none",
                     Append(logs, Log("info", "CHANGE zone %d to Bypassed")))

\* StateMonitor._handle_zone_bypass
_handle_zone_bypass(evt, logs) ==
    LET z == evt.zone_or_user
    IN  IF z \notin DOMAIN zone_status
        THEN Outcome(zone_status, zone_troubles, "KeyError", logs)
        ELSE IF zone_status[z].bypassed
        THEN Outcome(zone_status, zone_troubles, "none",
                     Append(logs, Log("debug", "Got another %s message for zone %d")))
        ELSE Outcome([zone_status EXCEPT ![z].bypassed = TRUE], zone_troubles, "none",
                     Append(logs, Log("info", "CHANGE zone %d to Bypassed")))

\* _handle_zone_unbypass that refuses a zone that is not bypassed
_handle_zone_unbypass_strict(evt, logs) ==
    LET z == evt.zone_or_user
    IN  IF z \notin DOMAIN zone_status
        THEN Outcome(zone_status, zone_troubles, "KeyError", logs)
        ELSE IF ~zone_status[z].bypassed
        THEN Outcome(zone_status, zone_troubles, "ValueError", logs)
        ELSE Outcome([zone_status EXCEPT ![z].bypassed = FALSE], zone_troubles, "none",
                     Append(logs, Log("info", "CHANGE zone %d to Unbypassed")))

\* StateMonitor._handle_zone_unbypass
_handle_zone_unbypass(evt, logs) ==
    LET z == evt.zone_or_user
    IN  IF z \notin DOMAIN zone_status
        THEN Outcome(zone_status, zone_troubles, "KeyError", logs)
        ELSE IF ~zone_status[z].bypassed
        THEN Outcome(zone_status, zone_troubles, "none",
                     Append(logs, Log("debug", "Got another %s message for zone %d")))
        ELSE Outcome([zone_status EXCEPT ![z].bypassed = FALSE], zone_troubles, "none",
                     Append(logs, Log("info", "CHANGE zone %d to Unbypassed")))

\* StateMonitor._handle_zone_fault: the raise is its first statement
_handle_zone_fault(evt, logs) ==
    Outcome(zone_status, zone_troubles, "NotImplementedError", logs)

\* StateMonitor._handle_zone_fault_restore: the raise is its first statement
_handle_zone_fault_restore(evt, logs) ==
    Outcome(zone_status, zone_troubles, "NotImplementedError", logs)

\* isinstance(evt, cls)
isinstance(evt, cls) == cls \in evt.mro

\* _handle_event that raises for an event it has no rule for
_handle_event_raising_unhandled(evt) ==
    LET l0 == <<Log("debug", "Got System Event Notification: %s")>>
    IN  IF isinstance(evt, "AlarmEvent") THEN _handle_alarm(evt, l0)
        ELSE IF isinstance(evt, "OtherAlarmRestore") THEN _handle_alarm_restore(evt, l0)
        ELSE IF \/ isinstance(evt, "RfLowBattery")
                \/ isinstance(evt, "OtherTrouble")
                \/ isinstance(evt, "LowBattery")
        THEN _handle_zone_trouble(evt, l0)
        ELSE IF \/ isinstance(evt, "RfLowBatteryRestore")
                \/ isinstance(evt, "OtherTroubleRestore")
                \/ isinstance(evt, "LowBatteryRestore")
        THEN _handle_zone_trouble_restore(evt, l0)
        ELSE IF isinstance(evt, "OtherBypass") THEN _handle_zone_bypass(evt, l0)
        ELSE IF isinstance(evt, "OtherUnbypass") THEN _handle_zone_unbypass(evt, l0)
        ELSE IF isinstance(evt, "FaultEvent") THEN _handle_zone_fault(evt, l0)
        ELSE IF isinstance(evt, "FaultRestoreEvent") THEN _handle_zone_fault_restore(evt, l0)
        ELSE Outcome(zone_status, zone_troubles, "NotImplementedError",
                     Append(l0, Log("warning",
                         "Got un-handled System Event Notification: %s")))

\* StateMonitor._handle_event
_handle_event(evt) ==
    LET l0 == <<Log("debug", "Got System Event Notification: %s")>>
    IN  IF isinstance(evt, "AlarmEvent") THEN _handle_alarm(evt, l0)
        ELSE IF isinstance(evt, "OtherAlarmRestore") THEN _handle_alarm_restore(evt, l0)
        ELSE IF \/ isinstance(evt, "RfLowBattery")
                \/ isinstance(evt, "OtherTrouble")
                \/ isinstance(evt, "LowBattery")
        THEN _handle_zone_trouble(evt, l0)
        ELSE IF \/ isinstance(evt, "RfLowBatteryRestore")
                \/ isinstance(evt, "OtherTroubleRestore")
                \/ isinstance(evt, "LowBatteryRestore")
        THEN _handle_zone_trouble_restore(evt, l0)
        ELSE IF isinstance(evt, "OtherBypass") THEN _handle_zone_bypass(evt, l0)
        ELSE IF isinstance(evt, "OtherUnbypass") THEN _handle_zone_unbypass(evt, l0)
        ELSE IF isinstance(evt, "FaultEvent") THEN _handle_zone_fault(evt, l0)
        ELSE IF isinstance(evt, "FaultRestoreEvent") THEN _handle_zone_fault_restore(evt, l0)
        ELSE Outcome(zone_status, zone_troubles, "none",
                     Append(l0, Log("warning",
                         "Got un-handled System Event Notification: %s")))

\* dict.update that drops the keys other does not hold
DictUpdate_replacing(d, other) == other

\* dict.update(other)
DictUpdate(d, other) == other @@ d

\* RunBody with zone_troubles made of the keys of the report alone
RunBody_troubles_of_report(m) ==
    LET Maps(as, zs, zp, zt, e, logs) ==
            [arming_status |-> as, zone_status |-> zs, zone_partitions |-> zp,
             zone_troubles |-> zt, exc |-> e, log |-> logs]
    IN  IF m.type = "ArmingStatusReport"
        THEN Maps(DictUpdate(arming_status, m.partition_state), zone_status,
                  zone_partitions, zone_troubles, "none",
                  <<Log("info", "Got initial partition arming status: %s")>>)
        ELSE IF m.type = "ZoneStatusReport"
        THEN LET zs == DictUpdate(zone_status, m.zones)
             IN  Maps(arming_status, zs, zone_partitions, [x \in DOMAIN m.zones |-> {}],
                      "none", <<Log("info", "Got initial zone status: %s")>>)
        ELSE IF m.type = "ZonePartitionReport"
        THEN Maps(arming_status, zone_status,
                  DictUpdate(zone_partitions, m.partitions), zone_troubles, "none",
                  <<Log("info", "Got zone partition state: %s")>>)
        ELSE IF m.type = "ArmAwayMessage"
        THEN Maps(arming_status, zone_status, zone_partitions, zone_troubles, "none",
                  <<Log("info", "Got Arm Away for user %s (code %s)"),
                    Log("error", "NOT IMPLEMENTED: how to handle ArmAwayMessage?")>>)
        ELSE IF m.type = "ArmHomeMessage"
        THEN Maps(arming_status, zone_status, zone_partitions, zone_troubles, "none",
                  <<Log("info", "Got Arm Home for user %s (code %s)"),
                    Log("error", "NOT IMPLEMENTED: how to handle ArmHomeMessage?")>>)
        ELSE IF m.type = "DisarmMessage"
        THEN Maps(arming_status, zone_status, zone_partitions, zone_troubles, "none",
                  <<Log("info", "Got Disarm for user %s (code %s)"),
                    Log("error", "NOT IMPLEMENTED: how to handle DisarmMessage?")>>)
        ELSE IF m.type = "SystemEventNotification"
        THEN LET out == _handle_event(m.event_type)
             IN  Maps(arming_status, out.zone_status, zone_partitions,
                      out.zone_troubles, out.exc, out.log)
        ELSE Maps(arming_status, zone_status, zone_partitions, zone_troubles, "none",
                  <<Log("error", "Got un-handled message: %s")>>)

\* The body of the for loop of StateMonitor.run up to the readiness test, on
\* message m: the four maps as it leaves them, the exception it raised and
\* the log records it wrote.
RunBody(m) ==
    LET Maps(as, zs, zp, zt, e, logs) ==
            [arming_status |-> as, zone_status |-> zs, zone_partitions |-> zp,
             zone_troubles |-> zt, exc |-> e, log |-> logs]
    IN  IF m.type = "ArmingStatusReport"
        THEN Maps(DictUpdate(arming_status, m.partition_state), zone_status,
                  zone_partitions, zone_troubles, "none",
                  <<Log("info", "Got initial partition arming status: %s")>>)
        ELSE IF m.type = "ZoneStatusReport"
        THEN LET zs == DictUpdate(zone_status, m.zones)
             IN  Maps(arming_status, zs, zone_partitions, [x \in DOMAIN zs |-> {}],
                      "none", <<Log("info", "Got initial zone status: %s")>>)
        ELSE IF m.type = "ZonePartitionReport"
        THEN Maps(arming_status, zone_status,
                  DictUpdate(zone_partitions, m.partitions), zone_troubles, "none",
                  <<Log("info", "Got zone partition state: %s")>>)
        ELSE IF m.type = "ArmAwayMessage"
        THEN Maps(arming_status, zone_status, zone_partitions, zone_troubles, "none",
                  <<Log("info", "Got Arm Away for user %s (code %s)"),
                    Log("error", "NOT IMPLEMENTED: how to handle ArmAwayMessage?")>>)
        ELSE IF m.type = "ArmHomeMessage"
        THEN Maps(arming_status, zone_status, zone_partitions, zone_troubles, "none",
                  <<Log("info", "Got Arm Home for user %s (code %s)"),
                    Log("error", "NOT IMPLEMENTED: how to handle ArmHomeMessage?")>>)
        ELSE IF m.type = "DisarmMessage"
        THEN Maps(arming_status, zone_status, zone_partitions, zone_troubles, "none",
                  <<Log("info", "Got Disarm for user %s (code %s)"),
                    Log("error", "NOT IMPLEMENTED: how to handle DisarmMessage?")>>)
        ELSE IF m.type = "SystemEventNotification"
        THEN LET out == _handle_event(m.event_type)
             IN  Maps(arming_status, out.zone_status, zone_partitions,
                      out.zone_troubles, out.exc, out.log)
        ELSE Maps(arming_status, zone_status, zone_partitions, zone_troubles, "none",
                  <<Log("error", "Got un-handled message: %s")>>)

\* Run with the readiness test leaving out zone_partitions
Run_ready_without_partitions(m) ==
    /\ pc = "running"
    /\ \E out \in {RunBody(m)} :
          /\ arming_status' = out.arming_status
          /\ zone_status' = out.zone_status
          /\ zone_partitions' = out.zone_partitions
          /\ zone_troubles' = out.zone_troubles
          /\ exc' = out.exc
          /\ IF out.exc # "none"
             THEN /\ pc' = "raised"
                  /\ is_ready' = is_ready
             ELSE /\ pc' = "running"
                  /\ is_ready' = \/ is_ready
                                 \/ /\ out.arming_status # <<>>
                                    /\ out.zone_status # <<>>
    /\ UNCHANGED <<event_code, zone_or_user, zone_names, event, raw_message, parsed,
                   outgoing, written>>
    /\ UNCHANGED <<report_vars, example_vars>>

\* One iteration of the for loop of StateMonitor.run: the generator yields
\* m, the body handles it, and the readiness test follows unless the body
\* raised; an exception leaves run, which has no handler for it.
Run(m) ==
    /\ pc = "running"
    /\ \E out \in {RunBody(m)} :
          /\ arming_status' = out.arming_status
          /\ zone_status' = out.zone_status
          /\ zone_partitions' = out.zone_partitions
          /\ zone_troubles' = out.zone_troubles
          /\ exc' = out.exc
          /\ IF out.exc # "none"
             THEN /\ pc' = "raised"
                  /\ is_ready' = is_ready
             ELSE /\ pc' = "running"
                  /\ is_ready' = \/ is_ready
                                 \/ /\ out.arming_status # <<>>
                                    /\ out.zone_status # <<>>
                                    /\ out.zone_partitions # <<>>
    /\ UNCHANGED <<event_code, zone_or_user, zone_names, event, raw_message, parsed,
                   outgoing, written>>
    /\ UNCHANGED <<report_vars, example_vars>>

\* The log records the iteration on m writes, the readiness record included.
RunLog(m) ==
    LET out == RunBody(m)
    IN  IF /\ out.exc = "none" /\ ~is_ready
           /\ out.arming_status # <<>>
           /\ out.zone_status # <<>>
           /\ out.zone_partitions # <<>>
        THEN Append(out.log, Log("info", "Initial state data is populated."))
        ELSE out.log

(***************************************************************************)
(* The messages the generator of Communicator.communicate hands to run,    *)
(* with the fields run reads.                                              *)
(***************************************************************************)
\* every sequence over S of length at most n
BoundedSeq(S, n) == UNION {[1..k -> S] : k \in 0..n}

\* data of the ArmingStatusReport frames received
ArmingData == BoundedSeq({"H", "D", "A"}, MaxPartition)

\* zone status nibbles of the ZoneStatusReport frames received:
\* CLOSED and OPEN|TROUBLE|ALARM|BYPASSED
ZoneChars == {"0", "F"}
ZoneData == BoundedSeq(ZoneChars, MaxZone)

\* data of the ZonePartitionReport frames received
PartitionData == BoundedSeq({HexDigits[d + 1] : d \in 0..MaxPartitionDigit}, MaxZone)

\* int(data[0:2], 16) of SystemEventNotification.__init__ is at most 0xFF
MaxEventCode == 255

\* an event code no class of the taxonomy carries
UnknownCode == CHOOSE c \in 0..MaxEventCode : \A k \in Classes : CODE(k) # c

\* the zone or user numbers of the notifications received
Subjects == 1..MaxZone

ArmingStatusReportMessage(data) ==
    [type |-> "ArmingStatusReport", partition_state |-> DecodePartitionState(data).value]

ZoneStatusReportMessage(data) ==
    [type |-> "ZoneStatusReport", zones |-> DecodeZones(data).value]

ZonePartitionReportMessage(data) ==
    [type |-> "ZonePartitionReport", partitions |-> DecodePartitions(data).value]

\* the events a notification may carry: an instance of any class of the
\* taxonomy, as event_for_code makes it without a name table, and an
\* UnknownEvent
Events ==
    {IF IS_ZONE(k) THEN SystemEvent(k, z, DictGet(<<>>, z)) ELSE SystemEvent(k, z, None) :
        k \in Classes \ {"SystemEvent"}, z \in Subjects}
    \cup {UnknownEvent(UnknownCode, z) : z \in Subjects}

\* SystemEventNotification as run reads it: _handle_event(message.event_type)
SystemEventNotificationMessage(evt) ==
    [type |-> "SystemEventNotification", event_type |-> evt]

ArmingStatusReports == {ArmingStatusReportMessage(d) : d \in ArmingData}
ZoneStatusReports == {ZoneStatusReportMessage(d) : d \in ZoneData}
ZonePartitionReports == {ZonePartitionReportMessage(d) : d \in PartitionData}
SystemEventNotifications ==
    {SystemEventNotificationMessage(e) : e \in Events}
ArmCommands == {[type |-> t] : t \in {"ArmAwayMessage", "ArmHomeMessage", "DisarmMessage"}}
OtherMessages ==
    {[type |-> t] : t \in {"UnknownMessage", "ArmingStatusRequest",
                           "ZoneStatusRequest", "ZonePartitionRequest"}}

(***************************************************************************)
(* The monitor: Init is the state after StateMonitor.__init__, on entry to *)
(* the loop of run.                                                        *)
(***************************************************************************)
MonitorInit ==
    /\ arming_status = <<>>
    /\ zone_status = <<>>
    /\ zone_partitions = <<>>
    /\ zone_troubles = <<>>
    /\ is_ready = FALSE
    /\ pc = "running"
    /\ exc = "none"

EventsIdle ==
    /\ event_code = 0
    /\ zone_or_user = 0
    /\ zone_names = <<>>
    /\ event = NoResult

CodecIdle ==
    /\ raw_message = <<>>
    /\ parsed = NoResult

TransportIdle ==
    /\ outgoing = <<>>
    /\ written = <<>>

\* no ZoneStatusReport is held
ReportIdle == report = [zones |-> <<>>, constructed |-> <<>>]

\* the store and the notifier of the example are not running
ExampleIdle ==
    /\ _messages = <<>>
    /\ _lock = "None"
    /\ added = 0
    /\ reader_pc = "idle"
    /\ notifier_pc = "idle"
    /\ items = <<>>
    /\ batches = <<>>
    /\ _proxies = "None"
    /\ _dry_run = FALSE
    /\ loop_i = 0
    /\ attempts = <<>>

Init == MonitorInit /\ EventsIdle /\ CodecIdle /\ TransportIdle /\ ReportIdle /\ ExampleIdle

ReceiveArmingStatusReport == \E m \in ArmingStatusReports : Run(m)
ReceiveZoneStatusReport == \E m \in ZoneStatusReports : Run(m)
ReceiveZonePartitionReport == \E m \in ZonePartitionReports : Run(m)
ReceiveSystemEventNotification == \E m \in SystemEventNotifications : Run(m)
ReceiveArmCommand == \E m \in ArmCommands : Run(m)
ReceiveOtherMessage == \E m \in OtherMessages : Run(m)

Next ==
    \/ ReceiveArmingStatusReport
    \/ ReceiveZoneStatusReport
    \/ ReceiveZonePartitionReport
    \/ ReceiveSystemEventNotification
    \/ ReceiveArmCommand
    \/ ReceiveOtherMessage

Spec == Init /\ [][Next]_vars
(***************************************************************************)
(* The monitor and the report it was handed.  zone_status.update puts the  *)
(* ZoneState objects of message.zones themselves into zone_status, and the *)
(* handlers assign the attributes of zone_status[z]: whoever holds the     *)
(* last ZoneStatusReport sees, under each of its keys, the object that     *)
(* zone_status holds under that key.                                       *)
(***************************************************************************)
\* One iteration of the for loop of run on m, as Run, with the report held
HoldingReport(m) ==
    /\ pc = "running"
    /\ \E out \in {RunBody(m)} :
          /\ arming_status' = out.arming_status
          /\ zone_status' = out.zone_status
          /\ zone_partitions' = out.zone_partitions
          /\ zone_troubles' = out.zone_troubles
          /\ exc' = out.exc
          /\ IF out.exc # "none"
             THEN /\ pc' = "raised"
                  /\ is_ready' = is_ready
             ELSE /\ pc' = "running"
                  /\ is_ready' = \/ is_ready
                                 \/ /\ out.arming_status # <<>>
                                    /\ out.zone_status # <<>>
                                    /\ out.zone_partitions # <<>>
          /\ report' = IF m.type = "ZoneStatusReport"
                       THEN [zones |-> m.zones, constructed |-> m.zones]
                       ELSE [report EXCEPT !.zones =
                                [idx \in DOMAIN report.zones |-> out.zone_status[idx]]]
    /\ UNCHANGED <<events_vars, codec_vars, transport_vars, example_vars>>

HoldZoneStatusReport == \E m \in ZoneStatusReports : HoldingReport(m)
HoldSystemEventNotification == \E m \in SystemEventNotifications : HoldingReport(m)

ReportNext == HoldZoneStatusReport \/ HoldSystemEventNotification

ReportSpec == Init /\ [][ReportNext]_vars

(***************************************************************************)
(* The taxonomy on its own: event_for_code applied to every event code two *)
(* hexadecimal digits can spell.                                           *)
(***************************************************************************)
\* the lookup tables handed to event_for_code: none, and a name for zone 1
ZoneTables == {<<>>, <<"Front Door">>}

EventsInit ==
    /\ MonitorInit
    /\ CodecIdle
    /\ TransportIdle
    /\ ReportIdle
    /\ ExampleIdle
    /\ event_code \in 0..MaxEventCode
    /\ zone_or_user \in 0..MaxZone
    /\ zone_names \in ZoneTables
    /\ event = NoResult

LookupEvent ==
    /\ event = NoResult
    /\ event' = event_for_code(event_code, zone_or_user, zone_names)
    /\ UNCHANGED <<event_code, zone_or_user, zone_names, monitor_vars, codec_vars,
                   transport_vars>>
    /\ UNCHANGED <<report_vars, example_vars>>

EventsNext == LookupEvent

EventsSpec == EventsInit /\ [][EventsNext]_vars

(***************************************************************************)
(* The codec on its own: parse applied to the frames a line may hold.      *)
(***************************************************************************)
\* n in 0..255 as two upper-case hexadecimal digits, as the panel writes it
Hex2(n) == <<HexDigits[(n \div 16) + 1], HexDigits[(n % 16) + 1]>>

\* n in 0..99 as two decimal digits
Dec2(n) == <<HexDigits[(n \div 10) + 1], HexDigits[(n % 10) + 1]>>

LowerCase(c) ==
    CASE c = "A" -> "a" [] c = "B" -> "b" [] c = "C" -> "c"
      [] c = "D" -> "d" [] c = "E" -> "e" [] c = "F" -> "f"
      [] c = "H" -> "h" [] c = "N" -> "n" [] c = "P" -> "p"
      [] c = "Q" -> "q" [] c = "S" -> "s" [] c = "Z" -> "z"
      [] OTHER -> c

Lower(s) == [i \in DOMAIN s |-> LowerCase(s[i])]

\* a frame without its checksum: length, type, subtype, data and the two
\* characters before the checksum
Body(ll, t, s, data) == ll \o <<t, s>> \o data \o <<"0", "0">>

\* the checksum value of the protocol over a body
ChecksumOf(body) == NegateByte(SumOrd(body))

FrameTypes == {"A", "a", "Z", "z", "N", "n", "x"}
FrameSubtypes == {"A", "a", "H", "h", "D", "d", "S", "s", "P", "p", "Q", "q", "x"}
DataChars == {"0", "A", "D", "H", "x"}

\* data of longer frames: a user and a user code, and the status of eight
\* zones
SampleData ==
    {<<"0", "2", "2", "3", "4", "5">>, <<"0", "3", "7", "8", "9", "8">>,
     <<"0", "0", "0", "0", "0", "1", "1", "1">>}

\* data of event notifications: code, subject, minute, hour, day, month
EventData ==
    {Hex2(c) \o Dec2(z) \o <<"2", "3", "1", "0", "2", "1", "0", "2">> :
        c \in 0..MaxEventCode, z \in {1, 14}}

FrameFields ==
    {<<t, s, d>> : t \in FrameTypes, s \in FrameSubtypes,
                   d \in BoundedSeq(DataChars, MaxData) \cup SampleData}
    \cup {<<"N", "Q", d>> : d \in EventData}

\* the length field written for a frame of n characters: right, one off
\* either way, in lower case, and not a number
LengthKinds == {"right", "long", "short", "lower", "garbled"}

LengthField(n, kind) ==
    CASE kind = "right" -> Hex2(n)
      [] kind = "long" -> Hex2(n + 1)
      [] kind = "short" -> Hex2(n - 1)
      [] kind = "lower" -> Lower(Hex2(n))
      [] OTHER -> <<"x", "x">>

\* the checksum field written after a body: right as two hexadecimal digits,
\* blank-padded, one off, and in lower case
ChecksumKinds == {"hex", "padded", "off", "lower"}

ChecksumField(body, kind) ==
    CASE kind = "hex" -> Hex2(ChecksumOf(body))
      [] kind = "padded" -> Format2X(ChecksumOf(body))
      [] kind = "off" -> Hex2((ChecksumOf(body) + 1) % 256)
      [] OTHER -> Lower(Hex2(ChecksumOf(body)))

Bodies ==
    {Body(LengthField(Len(f[3]) + 8, kind), f[1], f[2], f[3]) :
        f \in FrameFields, kind \in LengthKinds}

Frames == {body \o ChecksumField(body, kind) : body \in Bodies, kind \in ChecksumKinds}

CodecInit ==
    /\ MonitorInit
    /\ EventsIdle
    /\ TransportIdle
    /\ ReportIdle
    /\ ExampleIdle
    /\ raw_message \in Frames
    /\ parsed = NoResult

\* the read loop of Communicator.communicate hands the line to parse
Parse ==
    /\ parsed = NoResult
    /\ parsed' = parse(raw_message)
    /\ UNCHANGED <<raw_message, monitor_vars, events_vars, transport_vars>>
    /\ UNCHANGED <<report_vars, example_vars>>

CodecNext == Parse

CodecSpec == CodecInit /\ [][CodecNext]_vars
(***************************************************************************)
(* The session: StateMonitor.run driving Communicator.communicate, the     *)
(* serial port being the environment.  pc is "start" on entry to run,      *)
(* "entering" when the for statement first calls the generator, "reading"  *)
(* at readline, "resuming" when the generator is resumed after its yield,  *)
(* and "raised" when an exception has left run.                            *)
(***************************************************************************)
\* a frame as the panel writes it: length, type, subtype, data, 00 and the
\* checksum as two hexadecimal digits
WireFrame(t, s, data) ==
    Body(Hex2(Len(data) + 8), t, s, data) \o
    Hex2(ChecksumOf(Body(Hex2(Len(data) + 8), t, s, data)))

\* the type, subtype and data of the frames the panel sends in a session:
\* the three reports, one report that does not decode, a fault event and a
\* restore event for each zone, an echoed request and an unknown message
SessionFields ==
    {<<"A", "S", <<"H">>>>, <<"A", "S", <<"x">>>>,
     <<"a", "s", <<>>>>, <<"x", "x", <<>>>>}
    \cup {<<"Z", "S", d>> : d \in [1..MaxZone -> ZoneChars]}
    \cup {<<"Z", "P", [i \in 1..MaxZone |-> "0"]>>}
    \cup {<<"N", "Q", Hex2(c) \o Dec2(z) \o <<"2", "3", "1", "0", "2", "1", "0", "2">>>> :
             c \in {CODE("FaultEvent"), CODE("OtherAlarmRestore")}, z \in Subjects}

\* the lines readline returns, decoded and stripped: the frames, a frame
\* with a wrong checksum, and the empty line of a read that timed out
SessionLines ==
    {WireFrame(f[1], f[2], f[3]) : f \in SessionFields}
    \cup {Body(Hex2(8), "a", "s", <<>>) \o <<"0", "0">>}
    \cup {<<>>}

\* the line terminator communicate appends
Terminator == "\r\n"

SessionInit ==
    /\ arming_status = <<>>
    /\ zone_status = <<>>
    /\ zone_partitions = <<>>
    /\ zone_troubles = <<>>
    /\ is_ready = FALSE
    /\ pc = "start"
    /\ exc = "none"
    /\ EventsIdle
    /\ CodecIdle
    /\ TransportIdle
    /\ ReportIdle
    /\ ExampleIdle

\* Communicator.send_message(msg)
send_message(queue, msg) == Append(queue, msg)

\* StateMonitor.run up to its for statement: the three requests are queued
QueueRequests ==
    /\ pc = "start"
    /\ outgoing' = send_message(send_message(send_message(outgoing,
                       generate("ArmingStatusRequest").value),
                       generate("ZoneStatusRequest").value),
                       generate("ZonePartitionRequest").value)
    /\ pc' = "entering"
    /\ UNCHANGED <<arming_status, zone_status, zone_partitions, zone_troubles,
                   is_ready, exc, events_vars, codec_vars, written>>
    /\ UNCHANGED <<report_vars, example_vars>>

\* Communicator.communicate up to its while loop: the first queued message
\* is written, encoded to bytes
EnterCommunicate ==
    /\ pc = "entering"
    /\ IF outgoing # <<>>
       THEN /\ outgoing' = Tail(outgoing)
            /\ written' = Append(written,
                   [data |-> Append(Head(outgoing), Terminator), type |-> "bytes"])
       ELSE UNCHANGED <<outgoing, written>>
    /\ pc' = "reading"
    /\ UNCHANGED <<arming_status, zone_status, zone_partitions, zone_troubles,
                   is_ready, exc, events_vars, codec_vars>>
    /\ UNCHANGED <<report_vars, example_vars>>

\* One turn of the while loop of communicate up to its yield, and the body
\* of the for loop of run on the message yielded: the line is read and
\* parsed; an exception of parse leaves the generator and run; otherwise
\* run handles the message and tests readiness.
ReadLine ==
    /\ pc = "reading"
    /\ \E line \in SessionLines : \E res \in {parse(line)} :
          /\ raw_message' = line
          /\ parsed' = res
          /\ IF Raised(res)
             THEN /\ exc' = res.exc
                  /\ pc' = "raised"
                  /\ UNCHANGED <<arming_status, zone_status, zone_partitions,
                                 zone_troubles, is_ready>>
             ELSE \E out \in {RunBody(res.value)} :
                     /\ arming_status' = out.arming_status
                     /\ zone_status' = out.zone_status
                     /\ zone_partitions' = out.zone_partitions
                     /\ zone_troubles' = out.zone_troubles
                     /\ exc' = out.exc
                     /\ IF out.exc # "none"
                        THEN /\ pc' = "raised"
                             /\ is_ready' = is_ready
                        ELSE /\ pc' = "resuming"
                             /\ is_ready' = \/ is_ready
                                            \/ /\ out.arming_status # <<>>
                                               /\ out.zone_status # <<>>
                                               /\ out.zone_partitions # <<>>
    /\ UNCHANGED <<events_vars, transport_vars>>
    /\ UNCHANGED <<report_vars, example_vars>>

\* communicate after its yield, writing every queued message
ResumeCommunicate_draining ==
    /\ pc = "resuming"
    /\ outgoing' = <<>>
    /\ written' = written \o [k \in DOMAIN outgoing |->
                       [data |-> Append(outgoing[k], Terminator), type |-> "str"]]
    /\ pc' = "reading"
    /\ UNCHANGED <<arming_status, zone_status, zone_partitions, zone_troubles,
                   is_ready, exc, events_vars, codec_vars>>
    /\ UNCHANGED <<report_vars, example_vars>>

\* communicate after its yield: the next queued message is handed to
\* Serial.write as a str, not encoded; write takes it or raises TypeError,
\* as the serial library decides
ResumeCommunicate ==
    /\ pc = "resuming"
    /\ IF outgoing = <<>>
       THEN /\ pc' = "reading"
            /\ UNCHANGED <<outgoing, written, exc>>
       ELSE /\ outgoing' = Tail(outgoing)
            /\ \/ /\ written' = Append(written,
                         [data |-> Append(Head(outgoing), Terminator), type |-> "str"])
                  /\ pc' = "reading"
                  /\ exc' = exc
               \/ /\ written' = written
                  /\ pc' = "raised"
                  /\ exc' = "TypeError"
    /\ UNCHANGED <<arming_status, zone_status, zone_partitions, zone_troubles,
                   is_ready, events_vars, codec_vars>>
    /\ UNCHANGED <<report_vars, example_vars>>

SessionNext == QueueRequests \/ EnterCommunicate \/ ReadLine \/ ResumeCommunicate

\* run keeps executing until an exception leaves it: readline returns at
\* the latest when its timeout expires
SessionSpec == SessionInit /\ [][SessionNext]_vars /\ WF_vars(SessionNext)

(***************************************************************************)
(* The zone states: parse over the zone status reports of two zones, each  *)
(* zone's status being any of the sixteen hexadecimal digits.              *)
(***************************************************************************)
ZoneStateFrames ==
    {WireFrame("Z", "S", <<HexDigits[a], HexDigits[b]>>) :
        a \in DOMAIN HexDigits, b \in DOMAIN HexDigits}

ZoneStateInit ==
    /\ MonitorInit
    /\ EventsIdle
    /\ TransportIdle
    /\ ReportIdle
    /\ ExampleIdle
    /\ raw_message \in ZoneStateFrames
    /\ parsed = NoResult

ZoneStateNext == Parse

ZoneStateSpec == ZoneStateInit /\ [][ZoneStateNext]_vars

(***************************************************************************)
(* examples/pushover_example.py: the MessageStore shared by the thread     *)
(* that reads the panel, which calls add, and the PushoverNotifier thread, *)
(* whose run loop calls get_all and delivers what it returns.  Messages    *)
(* are numbered in the order of the add calls.  A thread's steps are the   *)
(* acquisition of the lock, each statement under it, and its release.      *)
(***************************************************************************)
ExampleInit ==
    /\ MonitorInit
    /\ EventsIdle
    /\ CodecIdle
    /\ TransportIdle
    /\ ReportIdle
    /\ _messages = <<>>
    /\ _lock = "None"
    /\ added = 0
    /\ reader_pc = "idle"
    /\ notifier_pc = "get_all"
    /\ items = <<>>
    /\ batches = <<>>
    /\ _proxies \in {"None", "proxies"}
    /\ _dry_run \in BOOLEAN
    /\ loop_i = 0
    /\ attempts = <<>>

\* MessageStore.add: with self._lock
AddAcquire ==
    /\ reader_pc = "idle"
    /\ added < MaxMessages
    /\ _lock = "None"
    /\ _lock' = "reader"
    /\ added' = added + 1
    /\ reader_pc' = "append"
    /\ UNCHANGED <<_messages, notifier_pc, items, batches, notifier_vars>>
    /\ UNCHANGED <<monitor_vars, events_vars, codec_vars, transport_vars, report_vars>>

\* MessageStore.add: self._messages.append(msg)
AddAppend ==
    /\ reader_pc = "append"
    /\ _messages' = Append(_messages, added)
    /\ reader_pc' = "release"
    /\ UNCHANGED <<_lock, added, notifier_pc, items, batches, notifier_vars>>
    /\ UNCHANGED <<monitor_vars, events_vars, codec_vars, transport_vars, report_vars>>

\* MessageStore.add: leaving the with statement
AddRelease ==
    /\ reader_pc = "release"
    /\ _lock' = "None"
    /\ reader_pc' = "idle"
    /\ UNCHANGED <<_messages, added, notifier_pc, items, batches, notifier_vars>>
    /\ UNCHANGED <<monitor_vars, events_vars, codec_vars, transport_vars, report_vars>>

\* MessageStore.get_all: with self._lock
GetAllAcquire ==
    /\ notifier_pc = "get_all"
    /\ _lock = "None"
    /\ _lock' = "notifier"
    /\ notifier_pc' = "swap"
    /\ UNCHANGED <<_messages, added, reader_pc, items, batches, notifier_vars>>
    /\ UNCHANGED <<monitor_vars, events_vars, codec_vars, transport_vars, report_vars>>

\* get_all whose swap leaves the messages in the store
GetAllSwap_keeping ==
    /\ notifier_pc = "swap"
    /\ items' = _messages
    /\ notifier_pc' = "get_all_release"
    /\ UNCHANGED <<_messages, _lock, added, reader_pc, batches, notifier_vars>>
    /\ UNCHANGED <<monitor_vars, events_vars, codec_vars, transport_vars, report_vars>>

\* MessageStore.get_all: items, self._messages = self._messages, []
GetAllSwap ==
    /\ notifier_pc = "swap"
    /\ items' = _messages
    /\ _messages' = <<>>
    /\ notifier_pc' = "get_all_release"
    /\ UNCHANGED <<_lock, added, reader_pc, batches, notifier_vars>>
    /\ UNCHANGED <<monitor_vars, events_vars, codec_vars, transport_vars, report_vars>>

\* MessageStore.get_all: leaving the with statement
GetAllRelease ==
    /\ notifier_pc = "get_all_release"
    /\ _lock' = "None"
    /\ notifier_pc' = "returned"
    /\ UNCHANGED <<_messages, added, reader_pc, items, batches, notifier_vars>>
    /\ UNCHANGED <<monitor_vars, events_vars, codec_vars, transport_vars, report_vars>>

\* PushoverNotifier.run: messages = self._store.get_all(); if messages:
\* _handle_messages calls _do_notify_pushover.  An empty list returned is
\* not recorded in batches.
GetAllReturn ==
    /\ notifier_pc = "returned"
    /\ IF items # <<>>
       THEN /\ batches' = Append(batches, items)
            /\ notifier_pc' = "notify"
            /\ attempts' = <<>>
            /\ loop_i' = 0
       ELSE /\ notifier_pc' = "sleep"
            /\ UNCHANGED <<batches, attempts, loop_i>>
    /\ UNCHANGED <<_messages, _lock, added, reader_pc, items, _proxies, _dry_run>>
    /\ UNCHANGED <<monitor_vars, events_vars, codec_vars, transport_vars, report_vars>>

\* _do_notify_pushover up to its first loop: if self._dry_run: return
NotifyDryRunTest ==
    /\ notifier_pc = "notify"
    /\ notifier_pc' = IF _dry_run THEN "sleep" ELSE "direct"
    /\ UNCHANGED <<store_vars_but_pc, notifier_vars>>
    /\ UNCHANGED <<monitor_vars, events_vars, codec_vars, transport_vars, report_vars>>

\* _do_notify_pushover: one turn of the first loop, for i in range(0, 2);
\* _send_pushover returns or raises as the network decides
DirectAttempt ==
    /\ notifier_pc = "direct"
    /\ \E ok \in BOOLEAN :
          /\ attempts' = Append(attempts, [proxies |-> "absent", ok |-> ok])
          /\ IF ok
             THEN /\ notifier_pc' = "sleep"
                  /\ loop_i' = loop_i
             ELSE /\ loop_i' = loop_i + 1
                  /\ notifier_pc' = IF loop_i + 1 < 2 THEN "direct" ELSE "test_proxies"
    /\ UNCHANGED <<store_vars_but_pc, _proxies, _dry_run>>
    /\ UNCHANGED <<monitor_vars, events_vars, codec_vars, transport_vars, report_vars>>

\* _do_notify_pushover: if self._proxies: log and return; otherwise
\* d['proxies'] = self._proxies
ProxiesTest ==
    /\ notifier_pc = "test_proxies"
    /\ IF _proxies # "None"
       THEN /\ notifier_pc' = "sleep"
            /\ loop_i' = loop_i
       ELSE /\ notifier_pc' = "proxy"
            /\ loop_i' = 0
    /\ UNCHANGED <<store_vars_but_pc, _proxies, _dry_run, attempts>>
    /\ UNCHANGED <<monitor_vars, events_vars, codec_vars, transport_vars, report_vars>>

\* _do_notify_pushover: one turn of the second loop, with d['proxies'] set
ProxyAttempt ==
    /\ notifier_pc = "proxy"
    /\ \E ok \in BOOLEAN :
          /\ attempts' = Append(attempts, [proxies |-> _proxies, ok |-> ok])
          /\ IF ok
             THEN /\ notifier_pc' = "sleep"
                  /\ loop_i' = loop_i
             ELSE /\ loop_i' = loop_i + 1
                  /\ notifier_pc' = IF loop_i + 1 < 2 THEN "proxy" ELSE "sleep"
    /\ UNCHANGED <<store_vars_but_pc, _proxies, _dry_run>>
    /\ UNCHANGED <<monitor_vars, events_vars, codec_vars, transport_vars, report_vars>>

\* PushoverNotifier.run: sleep(self._batch_seconds), and the loop again
Sleep ==
    /\ notifier_pc = "sleep"
    /\ notifier_pc' = "get_all"
    /\ UNCHANGED <<store_vars_but_pc, notifier_vars>>
    /\ UNCHANGED <<monitor_vars, events_vars, codec_vars, transport_vars, report_vars>>

ExampleNext ==
    \/ AddAcquire \/ AddAppend \/ AddRelease
    \/ GetAllAcquire \/ GetAllSwap \/ GetAllRelease \/ GetAllReturn
    \/ NotifyDryRunTest \/ DirectAttempt \/ ProxiesTest \/ ProxyAttempt
    \/ Sleep

ExampleSpec == ExampleInit /\ [][ExampleNext]_vars

(***************************************************************************)
(* Properties of the example, checked under ExampleSpec.                   *)
(***************************************************************************)
RECURSIVE Flatten(_)
Flatten(lists) ==
    IF lists = <<>> THEN <<>> ELSE Head(lists) \o Flatten(Tail(lists))

\* the messages appended to the store so far, in the order of the add calls
Appended ==
    [k \in 1..(IF reader_pc = "append" THEN added - 1 ELSE added) |-> k]

\* the list get_all has taken from the store and not yet returned
Taken ==
    IF notifier_pc \in {"get_all_release", "returned"} THEN items ELSE <<>>

\* C38: under every interleaving of add with get_all, the lists returned by
\* get_all, followed by the list being returned and by the store's content,
\* are the added messages in the order they were added: each message is
\* returned by exactly one get_all, none is lost and none is returned twice.
C38_EveryMessageReturnedOnce ==
    Flatten(batches) \o Taken \o _messages = Appended

\* every message was added and returned, over several calls of get_all, one
\* of which ran while add was between two messages
C38_Witness ==
    /\ added = MaxMessages
    /\ reader_pc = "idle"
    /\ _messages = <<>>
    /\ Taken = <<>>
    /\ Len(batches) >= 2
    /\ Flatten(batches) = [k \in 1..MaxMessages |-> k]

\* a delivery has finished: _do_notify_pushover has returned
Delivered ==
    /\ notifier_pc = "sleep"
    /\ items # <<>>

\* C39: in dry-run nothing is sent; otherwise a delivery makes up to two
\* direct attempts and stops at the first success; when both fail, it makes
\* no further attempt when no proxies are configured, and up to two more
\* through the proxies when they are.
C39_DirectThenProxy ==
    /\ _dry_run => attempts = <<>>
    /\ (Delivered /\ ~_dry_run) =>
          LET n == Len(attempts) IN
          /\ n >= 1
          /\ \A k \in 1..(n - 1) : ~attempts[k].ok
          /\ \A k \in 1..n : k <= 2 => attempts[k].proxies = "absent"
          /\ IF \E k \in 1..n : k <= 2 /\ attempts[k].ok
             THEN n <= 2
             ELSE IF _proxies = "None"
                  THEN n = 2
                  ELSE /\ n \in 3..4
                       /\ \A k \in 3..n : attempts[k].proxies = _proxies

(***************************************************************************)
(* Properties of the monitor, checked under Spec.                          *)
(***************************************************************************)
\* the notifications carrying an event of class klass or of a subclass
NotificationsOf(klass) ==
    {m \in SystemEventNotifications : isinstance(m.event_type, klass)}

\* C1: in every state after a ZoneStatusReport has been processed, for every
\* tracked zone, the trouble flag is set if and only if the zone's set of
\* trouble causes is non-empty.
C1_TroubleIffCause ==
    zone_status # <<>> =>
        \A z \in DOMAIN zone_status :
            zone_status[z].trouble <=> zone_troubles[z] # {}

\* the cause name the spec pairs with each trouble-restore class
MatchingCause(klass) ==
    CASE klass = "RfLowBatteryRestore" -> NAME("RfLowBattery")
      [] klass = "OtherTroubleRestore" -> NAME("OtherTrouble")
      [] klass = "LowBatteryRestore" -> NAME("LowBattery")

TroubleRestoreKinds == {"RfLowBatteryRestore", "OtherTroubleRestore", "LowBatteryRestore"}

\* C2: in every state, a trouble-restore event for a known zone whose cause
\* set holds the name its matching trouble event added removes that name,
\* and leaves the trouble flag set exactly when causes remain.
C2_RestoreRemovesCause ==
    \A k \in TroubleRestoreKinds : \A m \in NotificationsOf(k) :
        LET z == m.event_type.zone_or_user
        IN  (/\ pc = "running"
             /\ z \in DOMAIN zone_status
             /\ MatchingCause(k) \in zone_troubles[z])
            => /\ RunBody(m).exc = "none"
               /\ MatchingCause(k) \notin RunBody(m).zone_troubles[z]
               /\ RunBody(m).zone_status[z].trouble
                      <=> RunBody(m).zone_troubles[z] # {}

\* the readiness flag as the iteration of run that ends in out leaves it
ReadyAfter(out) ==
    \/ is_ready
    \/ /\ out.arming_status # <<>>
       /\ out.zone_status # <<>>
       /\ out.zone_partitions # <<>>

\* the iteration of run that ends in out changes no field of the monitor
LeavesMonitorEqual(out) ==
    /\ out.arming_status = arming_status
    /\ out.zone_status = zone_status
    /\ out.zone_partitions = zone_partitions
    /\ out.zone_troubles = zone_troubles
    /\ ReadyAfter(out) = is_ready

\* C3: in every state, an alarm-kind event for a known zone raises nothing
\* and leaves the zone in alarm; and where the zone is in alarm already, as
\* it is after the first of two applications, the event raises nothing and
\* leaves every field of the monitor equal.
C3_AlarmTwice ==
    \A m \in NotificationsOf("AlarmEvent") :
        LET z == m.event_type.zone_or_user
        IN  (pc = "running" /\ z \in DOMAIN zone_status)
            => /\ RunBody(m).exc = "none"
               /\ RunBody(m).zone_status[z].alarm
               /\ zone_status[z].alarm => LeavesMonitorEqual(RunBody(m))

\* C3 witness: a zone in alarm by an event alone, its last report having
\* shown no alarm, so that an alarm event has acted on it
C3_Witness ==
    /\ pc = "running"
    /\ \E z \in DOMAIN zone_status :
          /\ zone_status[z].alarm
          /\ ~BitSet(zone_status[z]._state_numeric, 4)
\* the classes whose events the monitor files under a zone
ZoneEventKinds ==
    {"AlarmEvent", "OtherAlarmRestore", "RfLowBattery", "OtherTrouble",
     "LowBattery", "RfLowBatteryRestore", "OtherTroubleRestore",
     "LowBatteryRestore", "OtherBypass", "OtherUnbypass"}

\* C10: in every state, before the first ZoneStatusReport too, a zone event
\* whose zone is not a key of zone_status raises nothing out of run and
\* changes no field of the monitor, so that run goes on to the next message.
C10_UnknownZoneIsAnomaly ==
    \A k \in ZoneEventKinds : \A m \in NotificationsOf(k) :
        (pc = "running" /\ m.event_type.zone_or_user \notin DOMAIN zone_status)
        => /\ RunBody(m).exc = "none"
           /\ LeavesMonitorEqual(RunBody(m))

\* the classes of the fault events
FaultKinds == {"FaultEvent", "FaultRestoreEvent"}

\* C11: in every state, a FaultEvent or FaultRestoreEvent raises nothing out
\* of run and changes no field of the monitor, so that run goes on to
\* consume the messages that follow.
C11_FaultRejectedAndContinue ==
    \A k \in FaultKinds : \A m \in NotificationsOf(k) :
        pc = "running"
        => /\ RunBody(m).exc = "none"
           /\ LeavesMonitorEqual(RunBody(m))

\* the three snapshot maps are all non-empty
Populated ==
    /\ arming_status # <<>>
    /\ zone_status # <<>>
    /\ zone_partitions # <<>>

\* every message run may be handed
AllMessages ==
    ArmingStatusReports \cup ZoneStatusReports \cup ZonePartitionReports
    \cup SystemEventNotifications \cup ArmCommands \cup OtherMessages

\* the elements of a sequence
Range(seq) == {seq[i] : i \in DOMAIN seq}

ReadyRecord == Log("info", "Initial state data is populated.")

\* C13: the monitor is ready exactly when the three snapshot maps have all
\* become non-empty; an iteration reports readiness exactly when it ends
\* with the maps non-empty for the first time; and readiness, once true,
\* stays true.
C13_ReadyWhenPopulated ==
    /\ [](/\ is_ready <=> Populated
          /\ \A m \in AllMessages :
                pc = "running" =>
                    (ReadyRecord \in Range(RunLog(m))
                     <=> /\ ~Populated
                         /\ RunBody(m).exc = "none"
                         /\ RunBody(m).arming_status # <<>>
                         /\ RunBody(m).zone_status # <<>>
                         /\ RunBody(m).zone_partitions # <<>>))
    /\ [][is_ready => is_ready']_vars

\* C13 witness: the monitor is ready and still running, ready to take the
\* next message
C13_Witness == is_ready /\ Populated /\ pc = "running"

\* the record _handle_event writes for an event it has no rule for
UnhandledRecord == Log("warning", "Got un-handled System Event Notification: %s")

\* C15: in every state, the extended low-battery event for a known zone adds
\* its name to the zone's cause set and sets trouble, the extended
\* low-battery restore is taken by the trouble-restore rule, and neither
\* is logged as un-handled.
C15_ExtendedLowBatteryHandled ==
    \A k \in {"LowBatteryExtended", "LowBatteryRestoreExtended"} :
        \A m \in NotificationsOf(k) :
            LET z == m.event_type.zone_or_user
            IN  (pc = "running" /\ z \in DOMAIN zone_status)
                => /\ UnhandledRecord \notin Range(RunBody(m).log)
                   /\ k = "LowBatteryExtended" =>
                         /\ NAME(k) \in RunBody(m).zone_troubles[z]
                         /\ RunBody(m).zone_status[z].trouble

\* zone z is a key of zone_status and the loop of run is running
KnownZone(z) == pc = "running" /\ z \in DOMAIN zone_status

\* the notifications carrying an alarm or alarm-restore event for zone z
AlarmNotificationsFor(z) ==
    {m \in NotificationsOf("AlarmEvent") \cup NotificationsOf("OtherAlarmRestore") :
        m.event_type.zone_or_user = z}

\* C24: in every state, an alarm-restore event for a known zone raises
\* nothing and leaves the zone's alarm flag false, changing nothing at all
\* where it was false already; an alarm-kind event leaves it true; and
\* every message other than these and a ZoneStatusReport leaves it as it
\* was.  So after any sequence of events the flag is true exactly when the
\* last alarm or alarm-restore event for the zone was an alarm-kind event.
C24_AlarmRestore ==
    /\ \A m \in NotificationsOf("OtherAlarmRestore") :
          LET z == m.event_type.zone_or_user
          IN  KnownZone(z)
              => /\ RunBody(m).exc = "none"
                 /\ ~RunBody(m).zone_status[z].alarm
                 /\ ~zone_status[z].alarm => LeavesMonitorEqual(RunBody(m))
    /\ \A m \in NotificationsOf("AlarmEvent") :
          LET z == m.event_type.zone_or_user
          IN  KnownZone(z)
              => /\ RunBody(m).exc = "none"
                 /\ RunBody(m).zone_status[z].alarm
    /\ \A z \in Subjects :
          \A m \in AllMessages \ (ZoneStatusReports \cup AlarmNotificationsFor(z)) :
              KnownZone(z)
              => RunBody(m).zone_status[z].alarm = zone_status[z].alarm

\* C24 witness: a zone out of alarm by a restore event alone, its last
\* report having shown it in alarm
C24_Witness ==
    /\ pc = "running"
    /\ \E z \in DOMAIN zone_status :
          /\ ~zone_status[z].alarm
          /\ BitSet(zone_status[z]._state_numeric, 4)

\* the trouble kinds of the rule table
TroubleKinds == {"RfLowBattery", "OtherTrouble", "LowBattery", "LowBatteryExtended"}

\* C25: in every state, a trouble-kind event for a known zone raises
\* nothing and leaves its display name in the zone's cause set and the
\* zone's trouble flag set; where the name was in the set already, it
\* changes no field of the monitor.
C25_TroubleAddsCause ==
    \A k \in TroubleKinds : \A m \in NotificationsOf(k) :
        LET z == m.event_type.zone_or_user
        IN  KnownZone(z)
            => /\ RunBody(m).exc = "none"
               /\ m.event_type.NAME \in RunBody(m).zone_troubles[z]
               /\ RunBody(m).zone_status[z].trouble
               /\ m.event_type.NAME \in zone_troubles[z]
                      => LeavesMonitorEqual(RunBody(m))

\* C26: in every state, OtherBypass on a known zone raises nothing and
\* leaves the zone bypassed, OtherUnbypass raises nothing and leaves it not
\* bypassed, and each changes no field of the monitor where the zone was
\* so already.
C26_BypassIdempotent ==
    /\ \A m \in NotificationsOf("OtherBypass") :
          LET z == m.event_type.zone_or_user
          IN  KnownZone(z)
              => /\ RunBody(m).exc = "none"
                 /\ RunBody(m).zone_status[z].bypassed
                 /\ zone_status[z].bypassed => LeavesMonitorEqual(RunBody(m))
    /\ \A m \in NotificationsOf("OtherUnbypass") :
          LET z == m.event_type.zone_or_user
          IN  KnownZone(z)
              => /\ RunBody(m).exc = "none"
                 /\ ~RunBody(m).zone_status[z].bypassed
                 /\ ~zone_status[z].bypassed => LeavesMonitorEqual(RunBody(m))

\* C26 witness: a zone bypassed by an event alone, and another unbypassed by
\* an event alone, against what their last report showed
C26_Witness ==
    /\ pc = "running"
    /\ \E z \in DOMAIN zone_status :
          /\ zone_status[z].bypassed
          /\ ~BitSet(zone_status[z]._state_numeric, 8)
    /\ \E z \in DOMAIN zone_status :
          /\ ~zone_status[z].bypassed
          /\ BitSet(zone_status[z]._state_numeric, 8)

\* C27: in every state where a ZoneStatusReport has been processed already,
\* a further ZoneStatusReport leaves the cause set recorded for each zone
\* as it was.
C27_LaterReportKeepsCauses ==
    \A m \in ZoneStatusReports :
        (pc = "running" /\ zone_status # <<>>)
        => \A z \in DOMAIN zone_troubles :
              /\ z \in DOMAIN RunBody(m).zone_troubles
              /\ RunBody(m).zone_troubles[z] = zone_troubles[z]

\* C28: in every state where a ZoneStatusReport has been processed, every
\* key of zone_status is a key of zone_troubles.
C28_StatusKeysHaveCauseSets ==
    zone_status # <<>> => DOMAIN zone_status \subseteq DOMAIN zone_troubles

\* C28 witness: a zone put in trouble by an event has had its cause set
\* emptied by a later report that did not name it
C28_Witness ==
    /\ pc = "running"
    /\ \E z \in DOMAIN zone_status :
          /\ zone_status[z].trouble
          /\ ~BitSet(zone_status[z]._state_numeric, 2)
          /\ zone_troubles[z] = {}

\* the boolean flags of a zone's status that differ between zs1 and zs2
ChangedFlags(zs1, zs2) ==
    {f \in {"closed", "open", "trouble", "alarm", "bypassed"} : zs1[f] # zs2[f]}

\* the elements in one of the sets s1 and s2 alone
SymmetricDifference(s1, s2) == (s1 \ s2) \cup (s2 \ s1)

\* the kinds of the alarm, alarm-restore, trouble, trouble-restore, bypass
\* and unbypass rules
ZoneRuleKinds == ZoneEventKinds \cup {"LowBatteryExtended", "LowBatteryRestoreExtended"}

\* C29: in every state, an alarm, alarm-restore, trouble, trouble-restore,
\* bypass or unbypass event for zone z changes at most one flag of z's
\* status, never closed or open, and at most one element of z's cause set,
\* and leaves the status and the cause set of every other zone as they
\* were.
C29_OneFlagOneCause ==
    \A k \in ZoneRuleKinds : \A m \in NotificationsOf(k) :
        LET z == m.event_type.zone_or_user
        IN  pc = "running"
            => \E out \in {RunBody(m)} :
                  /\ DOMAIN out.zone_status = DOMAIN zone_status
                  /\ DOMAIN out.zone_troubles = DOMAIN zone_troubles
                  /\ \A y \in DOMAIN zone_status \ {z} :
                        out.zone_status[y] = zone_status[y]
                  /\ \A y \in DOMAIN zone_troubles \ {z} :
                        out.zone_troubles[y] = zone_troubles[y]
                  /\ z \in DOMAIN zone_status
                     => /\ Cardinality(ChangedFlags(out.zone_status[z],
                                                    zone_status[z])) <= 1
                        /\ out.zone_status[z].closed = zone_status[z].closed
                        /\ out.zone_status[z].open = zone_status[z].open
                        /\ out.zone_status[z]._state_numeric
                               = zone_status[z]._state_numeric
                  /\ z \in DOMAIN zone_troubles
                     => Cardinality(SymmetricDifference(out.zone_troubles[z],
                                                        zone_troubles[z])) <= 1

\* C29 witness: of two zones reported alike, one has since been bypassed
\* and put in trouble with one cause, and the other is as reported
C29_Witness ==
    /\ pc = "running"
    /\ DOMAIN zone_status = 1..MaxZone
    /\ zone_status[1] = [ZoneState(0) EXCEPT !.bypassed = TRUE, !.trouble = TRUE]
    /\ Cardinality(zone_troubles[1]) = 1
    /\ zone_status[MaxZone] = ZoneState(0)
    /\ zone_troubles[MaxZone] = {}

\* the event kinds the monitor has no rule for
UnhandledKinds ==
    {"ArmDisarmEvent", "ArmStay", "Disarm", "Arm", "AcFail", "AcRestore",
     "AlarmCancel", "DayNightAlarm", "DayNightRestore", "FailToDisarm", "FailToArm"}

\* the notifications carrying an event the monitor has no rule for, the
\* unknown events among them
UnhandledNotifications ==
    {m \in SystemEventNotifications :
        m.event_type.cls \in UnhandledKinds \cup {"UnknownEvent"}}

\* C30: in every state, only an ArmingStatusReport changes arming_status
\* and only a ZonePartitionReport changes zone_partitions; and an ArmAway,
\* ArmHome or Disarm message, an unknown or request message, and an event
\* of a kind the monitor has no rule for raise nothing and change no field
\* of the monitor.
C30_OnlyReportsChangeMaps ==
    /\ \A m \in AllMessages :
          pc = "running"
          => /\ m.type # "ArmingStatusReport"
                => RunBody(m).arming_status = arming_status
             /\ m.type # "ZonePartitionReport"
                => RunBody(m).zone_partitions = zone_partitions
    /\ \A m \in ArmCommands \cup OtherMessages \cup UnhandledNotifications :
          pc = "running"
          => /\ RunBody(m).exc = "none"
             /\ LeavesMonitorEqual(RunBody(m))

\* C30 witness: the monitor holds all three maps and a zone changed by an
\* event, and is running: reports and events have been processed, and the
\* next message may be of any kind
C30_Witness ==
    /\ pc = "running"
    /\ arming_status # <<>>
    /\ zone_partitions # <<>>
    /\ \E z \in DOMAIN zone_status :
          zone_status[z].alarm # BitSet(zone_status[z]._state_numeric, 4)

\* new is old with the entries of upd written over it
MergedInto(new, old, upd) ==
    /\ DOMAIN new = DOMAIN old \cup DOMAIN upd
    /\ \A k \in DOMAIN upd : new[k] = upd[k]
    /\ \A k \in DOMAIN old \ DOMAIN upd : new[k] = old[k]

\* C31: in every state, an ArmingStatusReport leaves arming_status holding
\* the report's value for every key of the report and its previous value
\* for every other key, a ZoneStatusReport does so to zone_status and a
\* ZonePartitionReport to zone_partitions; each leaves the other two maps
\* as they were.
C31_ReportsAreMerged ==
    pc = "running"
    => /\ \A m \in ArmingStatusReports :
             /\ MergedInto(RunBody(m).arming_status, arming_status, m.partition_state)
             /\ RunBody(m).zone_status = zone_status
             /\ RunBody(m).zone_partitions = zone_partitions
       /\ \A m \in ZoneStatusReports :
             /\ MergedInto(RunBody(m).zone_status, zone_status, m.zones)
             /\ RunBody(m).arming_status = arming_status
             /\ RunBody(m).zone_partitions = zone_partitions
       /\ \A m \in ZonePartitionReports :
             /\ MergedInto(RunBody(m).zone_partitions, zone_partitions, m.partitions)
             /\ RunBody(m).arming_status = arming_status
             /\ RunBody(m).zone_status = zone_status

\* C31 witness: with all three maps filled, a zone that an event had put in
\* alarm kept its status through a later report that did not name it, the
\* report having emptied its cause set
C31_Witness ==
    /\ pc = "running"
    /\ arming_status # <<>>
    /\ zone_partitions # <<>>
    /\ DOMAIN zone_status = 1..MaxZone
    /\ zone_status[MaxZone].alarm
    /\ zone_status[MaxZone].trouble
    /\ zone_status[MaxZone]._state_numeric = 0
    /\ zone_troubles[MaxZone] = {}

\* C35: in every state, the numeric value of each tracked ZoneState, which
\* its equality, ordering and repr use, agrees with its flags: the flags
\* are those of ZoneState(numeric value).
C35_NumericAgreesWithFlags ==
    \A z \in DOMAIN zone_status :
        zone_status[z] = ZoneState(zone_status[z]._state_numeric)

(***************************************************************************)
(* Properties of the report held, checked under ReportSpec.                *)
(***************************************************************************)
\* C34: in every state, the zones mapping of the last ZoneStatusReport
\* folded into the monitor, and every ZoneState in it, are as they were
\* when the report was constructed.
C34_ReportUnchanged ==
    report.zones = report.constructed

(***************************************************************************)
(* Properties of the session, checked under SessionSpec.                   *)
(***************************************************************************)
\* the frame of a Fault event for zone z
FaultLine(z) ==
    WireFrame("N", "Q", Hex2(CODE("FaultEvent")) \o Dec2(z) \o
                        <<"2", "3", "1", "0", "2", "1", "0", "2">>)

\* C12: the monitor is ready exactly when the three reports have filled the
\* three maps, and a Fault event frame read after that for a known zone is
\* decoded and handed to the monitor, which treats it as unimplemented
\* and leaves zone_status, zone_troubles, arming_status and
\* zone_partitions unchanged.
C12_EndToEnd ==
    /\ [](is_ready <=> Populated)
    /\ [][\A z \in Subjects :
             (/\ pc = "reading"
              /\ pc' # "reading"
              /\ is_ready
              /\ z \in DOMAIN zone_status
              /\ raw_message' = FaultLine(z))
             => /\ parsed'.exc = "none"
                /\ parsed'.value.type = "SystemEventNotification"
                /\ exc' \in {"none", "NotImplementedError"}
                /\ UNCHANGED <<zone_status, zone_troubles, arming_status,
                               zone_partitions>>]_vars

\* the three requests as they reach the transport, in order
InitialRequests ==
    <<Append(generate("ArmingStatusRequest").value, Terminator),
      Append(generate("ZoneStatusRequest").value, Terminator),
      Append(generate("ZonePartitionRequest").value, Terminator)>>

\* what the transport was handed, in order
WrittenData == [i \in DOMAIN written |-> written[i].data]

\* C14: what is written to the transport is at every moment a prefix of the
\* arming-status, zone-status and zone-partition requests in that order,
\* and all three come to be written.
C14_InitialRequestsWritten ==
    /\ [](/\ Len(WrittenData) <= Len(InitialRequests)
          /\ WrittenData = SubSeq(InitialRequests, 1, Len(WrittenData)))
    /\ <>(WrittenData = InitialRequests)

\* C23: a line refused by parse with a length, checksum or subfield error
\* does not end the session: run has not been left, and goes on to read
\* the lines that follow.
C23_DecodeErrorDoesNotEndSession ==
    (/\ parsed # NoResult
     /\ parsed.exc \in {"InvalidMessageException", "InvalidMessageLengthException",
                        "MessageChecksumException"})
    => pc # "raised"

\* C32: a step writes at most one queued command to the transport, and
\* only on entering communicate, before the first read, or on resuming
\* after a yield, and goes on to the next read; a read writes nothing.  So
\* one command at most is written before the first read and between two
\* reads, however many are queued.
C32_OneWritePerBoundary ==
    [][/\ written' # written
          => /\ Len(written') = Len(written) + 1
             /\ Len(outgoing') = Len(outgoing) - 1
             /\ pc \in {"entering", "resuming"}
             /\ pc' = "reading"
       /\ pc = "reading" => (written' = written /\ outgoing' = outgoing)
       /\ (pc = "reading" /\ pc' = "resuming") => parsed' = parse(raw_message')]_vars

\* C32 witness: a second command has been written after a read, with a
\* third still queued
C32_Witness ==
    /\ pc = "reading"
    /\ Len(written) = 2
    /\ Len(outgoing) = 1
    /\ parsed # NoResult

\* C33: every line handed to parse is non-empty.
C33_NoEmptyLineParsed ==
    parsed # NoResult => raw_message # <<>>

\* the session has ended for a reason the proviso of C37 excludes: a line
\* that parse refused, or a message that run's handlers refused
InboundFailure ==
    /\ pc = "raised"
    /\ \/ Raised(parsed)
       \/ exc # "TypeError"

\* C37: what is written is at every moment a prefix of what was queued, in
\* its order; and unless a line parse refuses or a message run refuses
\* ends the session, all three queued requests come to be written.
C37_QueuedEventuallyWritten ==
    /\ [](/\ Len(WrittenData) <= Len(InitialRequests)
          /\ WrittenData = SubSeq(InitialRequests, 1, Len(WrittenData))
          /\ pc \notin {"start", "raised"}
             => WrittenData \o [k \in DOMAIN outgoing |-> Append(outgoing[k], Terminator)]
                = InitialRequests)
    /\ <>(WrittenData = InitialRequests \/ InboundFailure)

(***************************************************************************)
(* Properties of the codec, checked under CodecSpec.                       *)
(***************************************************************************)
\* the length the frame declares: its first two characters read as hex
DeclaredLength(raw) == IntOf(Slice(raw, 0, 2), 16)

\* the checksum of the protocol over all but the last two characters, as two
\* upper-case hexadecimal digits
ProperChecksum(raw) == Hex2(ChecksumOf(Slice(raw, 0, -2)))

\* C4: a parsed frame whose declared length is its length and whose last two
\* characters are the two-digit upper-case hexadecimal checksum of the rest
\* did not fail with the checksum error.
C4_ProperChecksumAccepted ==
    (/\ parsed # NoResult
     /\ DeclaredLength(raw_message) = Len(raw_message)
     /\ LastTwo(raw_message) = ProperChecksum(raw_message))
    => parsed.exc # "MessageChecksumException"

\* C5: a parsed frame whose declared length differs from its length failed
\* with the length error, which carries the declared and the true length,
\* whatever the frame's checksum.
C5_LengthErrorFirst ==
    (/\ parsed # NoResult
     /\ DeclaredLength(raw_message) >= 0
     /\ DeclaredLength(raw_message) # Len(raw_message))
    => /\ parsed.exc = "InvalidMessageLengthException"
       /\ parsed.expected_len = DeclaredLength(raw_message)
       /\ parsed.actual_len = Len(raw_message)

\* C5 witness: parse has failed with the length error on a frame whose
\* checksum matches
C5_Witness ==
    /\ parsed # NoResult
    /\ parsed.exc = "InvalidMessageLengthException"
    /\ DeclaredLength(raw_message) # Len(raw_message)
    /\ LastTwo(raw_message) = Crc(raw_message)

\* C6: a parsed frame of the declared length whose last two characters are
\* not the two-digit checksum of the rest, a valid frame with its last two
\* characters replaced, failed with the checksum error, which carries the
\* frame's last two characters and the two-digit checksum of the rest.
C6_MutatedChecksumRejected ==
    (/\ parsed # NoResult
     /\ DeclaredLength(raw_message) = Len(raw_message)
     /\ LastTwo(raw_message) # ProperChecksum(raw_message))
    => /\ parsed.exc = "MessageChecksumException"
       /\ parsed.expected_crc = LastTwo(raw_message)
       /\ parsed.actual_crc = ProperChecksum(raw_message)

\* the data of a frame: raw_message[4:-4]
DataOf(raw) == Slice(raw, 4, -4)

\* a frame of type N and subtype Q, of the declared length, with a checksum
\* parse accepts, whose data are a two-digit hexadecimal code and five
\* two-digit decimal fields
WellFormedNotification(raw) ==
    /\ Len(raw) = 20
    /\ DeclaredLength(raw) = Len(raw)
    /\ LastTwo(raw) = Crc(raw)
    /\ raw[3] = "N"
    /\ raw[4] = "Q"
    /\ IntOf(Slice(DataOf(raw), 0, 2), 16) >= 0
    /\ \A i \in 1..5 : IntOf(Slice(DataOf(raw), 2 * i, 2 * i + 2), 10) >= 0

\* C9: parse of a well-formed frame of type N and subtype Q returned a
\* SystemEventNotification holding the code, the subject, minute, hour, day
\* and month of the data, and the taxonomy's event for the code and subject.
C9_NotificationDecoded ==
    (parsed # NoResult /\ WellFormedNotification(raw_message))
    => /\ parsed.exc = "none"
       /\ parsed.value.type = "SystemEventNotification"
       /\ parsed.value._event_type = IntOf(Slice(DataOf(raw_message), 0, 2), 16)
       /\ parsed.value.zone_or_user = IntOf(Slice(DataOf(raw_message), 2, 4), 10)
       /\ parsed.value.minute = IntOf(Slice(DataOf(raw_message), 4, 6), 10)
       /\ parsed.value.hour = IntOf(Slice(DataOf(raw_message), 6, 8), 10)
       /\ parsed.value.day = IntOf(Slice(DataOf(raw_message), 8, 10), 10)
       /\ parsed.value.month = IntOf(Slice(DataOf(raw_message), 10, 12), 10)
       /\ parsed.value.event_type.cls =
              event_for_code(parsed.value._event_type,
                             parsed.value.zone_or_user, <<>>).cls

\* the frame with its type and subtype in lower case and its checksum
\* computed anew, as parse computes it
LowerCaseCounterpart(raw) ==
    [i \in 1..(Len(raw) - 2) |-> IF i \in {3, 4} THEN LowerCase(raw[i]) ELSE raw[i]]
    \o Crc([i \in 1..Len(raw) |-> IF i \in {3, 4} THEN LowerCase(raw[i]) ELSE raw[i]])

\* parse returned a message of a registered variant for a frame whose type
\* and subtype are upper-case letters
UpperCaseDecoded ==
    /\ parsed # NoResult
    /\ parsed.exc = "none"
    /\ parsed.value.type # "UnknownMessage"
    /\ raw_message[3] \in ascii_uppercase
    /\ raw_message[4] \in ascii_uppercase

\* the message parse returns for the lower-case counterpart is the one it
\* returned for the frame, but for from_panel and the frame itself
CounterpartAgrees ==
    /\ parsed.value.from_panel
    /\ parse(LowerCaseCounterpart(raw_message)).exc = "none"
    /\ ~parse(LowerCaseCounterpart(raw_message)).value.from_panel
    /\ [parse(LowerCaseCounterpart(raw_message)).value
            EXCEPT !.from_panel = TRUE, !.raw_message = raw_message]
       = parsed.value

ArmVariants == {"ArmAwayMessage", "ArmHomeMessage", "DisarmMessage"}

Registered(t, s) ==
    \E i \in DOMAIN Registry :
        t \in Registry[i].MSG_TYPES /\ s \in Registry[i].MSG_SUBTYPES

\* C17: a parsed frame of the declared length, with the two-digit checksum
\* of the rest, whose type and subtype no class of the registry takes,
\* gave an UnknownMessage holding the type, the subtype, the frame and the
\* frame's data.
C17_UnknownMessageFallback ==
    (/\ parsed # NoResult
     /\ DeclaredLength(raw_message) = Len(raw_message)
     /\ LastTwo(raw_message) = ProperChecksum(raw_message)
     /\ ~Registered(raw_message[3], raw_message[4]))
    => /\ parsed.exc = "none"
       /\ parsed.value.type = "UnknownMessage"
       /\ parsed.value.msg_type = raw_message[3]
       /\ parsed.value.msg_subtype = raw_message[4]
       /\ parsed.value.raw_message = raw_message
       /\ parsed.value._data = DataOf(raw_message)

RequestVariants == {"ArmingStatusRequest", "ZoneStatusRequest", "ZonePartitionRequest"}

\* C18: the literal generate returns for each of the three requests declares
\* its own length, ends in the checksum of the rest, and is parsed without
\* an exception to the same request variant with from_panel false.
C18_RequestRoundTrip ==
    \A k \in RequestVariants :
        /\ generate(k).exc = "none"
        /\ DeclaredLength(generate(k).value) = Len(generate(k).value)
        /\ LastTwo(generate(k).value) = ProperChecksum(generate(k).value)
        /\ (parsed # NoResult /\ raw_message = generate(k).value)
           => /\ parsed.exc = "none"
              /\ parsed.value.type = k
              /\ ~parsed.value.from_panel

\* C18 witness: the literal of the zone-partition request has been parsed
C18_Witness ==
    /\ parsed # NoResult
    /\ raw_message = generate("ZonePartitionRequest").value

\* the values a zone's status takes
ZoneStateValues == {HexDigitValue(HexDigits[i]) : i \in DOMAIN HexDigits}

\* bit n of v
Bit(v, n) == IF n = 0 THEN v % 2 = 1 ELSE ((v \div (2 ^ n)) % 2) = 1

\* the flags of the zone state z are the bits of v, and its string form is
\* the names of the set flags in their order
ZoneStateOf(z, v) ==
    /\ z.open = Bit(v, 0)
    /\ z.closed = ~z.open
    /\ z.trouble = Bit(v, 1)
    /\ z.alarm = Bit(v, 2)
    /\ z.bypassed = Bit(v, 3)
    /\ ZoneState__str__(z) =
          (IF Bit(v, 0) THEN "OPEN" ELSE "CLOSED")
          \o (IF Bit(v, 1) THEN "|TROUBLE" ELSE "")
          \o (IF Bit(v, 2) THEN "|ALARM" ELSE "")
          \o (IF Bit(v, 3) THEN "|BYPASSED" ELSE "")

\* C19: for every v in 0..15, ZoneState(v) has open = bit 0, closed = not
\* open, trouble = bit 1, alarm = bit 2, bypassed = bit 3, and its string
\* form is CLOSED or OPEN and then the names of the other set flags in the
\* order TROUBLE, ALARM, BYPASSED, joined by '|'; so has every zone of a
\* decoded zone status report, for the value of its digit.
C19_ZoneStateFlags ==
    /\ ZoneStateValues = 0..15
    /\ \A v \in ZoneStateValues : ZoneStateOf(ZoneState(v), v)
    /\ (parsed # NoResult /\ parsed.exc = "none")
       => \A i \in DOMAIN parsed.value.zones :
             ZoneStateOf(parsed.value.zones[i],
                         HexDigitValue(DataOf(raw_message)[i]))

\* C19 witness: a report of an open zone in trouble and bypassed (0xB) and a
\* closed zone in alarm and bypassed (0xC) has been decoded
C19_Witness ==
    /\ parsed # NoResult
    /\ parsed.exc = "none"
    /\ DataOf(raw_message) = <<"B", "C">>
    /\ ZoneState__str__(parsed.value.zones[1]) = "OPEN|TROUBLE|BYPASSED"
    /\ ZoneState__str__(parsed.value.zones[2]) = "CLOSED|ALARM|BYPASSED"

\* the state each letter of an ArmingStatusReport stands for
StateOfLetter(c) ==
    CASE c = "H" -> "HOME" [] c = "D" -> "DISARMED" [] c = "A" -> "AWAY"

\* C20: a frame of type A and subtype S that passes the length and checksum
\* tests gives an ArmingStatusReport whose partition i has the state of
\* data character i when every character is H, D or A, and otherwise the
\* decode error naming the first other character and the data, and no report.
C20_ArmingStatusDecode ==
    (/\ parsed # NoResult
     /\ ~Raised(_parse_message(raw_message))
     /\ raw_message[3] = "A"
     /\ raw_message[4] = "S")
    => IF \A i \in DOMAIN DataOf(raw_message) : DataOf(raw_message)[i] \in {"H", "D", "A"}
       THEN /\ parsed.exc = "none"
            /\ parsed.value.type = "ArmingStatusReport"
            /\ DOMAIN parsed.value.partition_state = DOMAIN DataOf(raw_message)
            /\ \A i \in DOMAIN DataOf(raw_message) :
                  parsed.value.partition_state[i] = StateOfLetter(DataOf(raw_message)[i])
       ELSE /\ parsed.exc = "InvalidMessageException"
            /\ parsed.val \notin {"H", "D", "A"}
            /\ \E i \in DOMAIN DataOf(raw_message) :
                  /\ DataOf(raw_message)[i] = parsed.val
                  /\ \A j \in 1..(i - 1) : DataOf(raw_message)[j] \in {"H", "D", "A"}
            /\ parsed.data = DataOf(raw_message)

\* C20 witness: an ArmingStatusReport frame whose second letter is no state
\* has been refused
C20_Witness ==
    /\ parsed # NoResult
    /\ parsed.exc = "InvalidMessageException"
    /\ Len(DataOf(raw_message)) = 2
    /\ DataOf(raw_message)[1] \in {"H", "D", "A"}

\* C21: a frame of type Z and subtype S that passes the length and checksum
\* tests and whose data are hexadecimal digits gives a ZoneStatusReport
\* whose zone i has ZoneState(value of data character i); one of subtype P
\* whose data are decimal digits gives a ZonePartitionReport whose zone i
\* has the number data character i spells; the keys of both maps are
\* exactly 1..len(data).
C21_ReportsDecodeByPosition ==
    (/\ parsed # NoResult
     /\ ~Raised(_parse_message(raw_message))
     /\ raw_message[3] = "Z")
    => /\ (/\ raw_message[4] = "S"
           /\ \A i \in DOMAIN DataOf(raw_message) :
                 HexDigitValue(DataOf(raw_message)[i]) >= 0)
          => /\ parsed.exc = "none"
             /\ parsed.value.type = "ZoneStatusReport"
             /\ DOMAIN parsed.value.zones = 1..Len(DataOf(raw_message))
             /\ \A i \in 1..Len(DataOf(raw_message)) :
                   parsed.value.zones[i] =
                       ZoneState(HexDigitValue(DataOf(raw_message)[i]))
       /\ (/\ raw_message[4] = "P"
           /\ \A i \in DOMAIN DataOf(raw_message) :
                 DecDigitValue(DataOf(raw_message)[i]) >= 0)
          => /\ parsed.exc = "none"
             /\ parsed.value.type = "ZonePartitionReport"
             /\ DOMAIN parsed.value.partitions = 1..Len(DataOf(raw_message))
             /\ \A i \in 1..Len(DataOf(raw_message)) :
                   parsed.value.partitions[i] =
                       DecDigitValue(DataOf(raw_message)[i])

\* C21 witness: a zone partition report of six zones, the third in
\* partition 2, has been decoded
C21_Witness ==
    /\ parsed # NoResult
    /\ parsed.exc = "none"
    /\ parsed.value.type = "ZonePartitionReport"
    /\ Len(DataOf(raw_message)) = 6
    /\ parsed.value.partitions[3] = 2

\* the exceptions of the InvalidMessageException family
InvalidMessageFamily ==
    {"InvalidMessageException", "InvalidMessageLengthException",
     "MessageChecksumException"}

\* C22: a frame that passes the length and checksum tests is decoded, or
\* refused with an exception of the InvalidMessageException family that
\* carries the frame; no other exception leaves parse.
C22_DecodeFailuresStructured ==
    (/\ parsed # NoResult
     /\ ~Raised(_parse_message(raw_message))
     /\ Raised(parsed))
    => /\ parsed.exc \in InvalidMessageFamily
       /\ parsed.raw_message = raw_message

\* the entries of the registry that take the type t and the subtype s
Matches(t, s) ==
    {i \in DOMAIN Registry :
        t \in Registry[i].MSG_TYPES /\ s \in Registry[i].MSG_SUBTYPES}

\* C36: no two entries of the registry take a same pair of type and
\* subtype; so the frame that passes the length and checksum tests matches
\* one entry at most, and the message parse returns is of that entry's
\* class whichever way the registry is searched.
C36_RegistryUnambiguous ==
    /\ \A i, j \in DOMAIN Registry :
          i # j => \/ Registry[i].MSG_TYPES \cap Registry[j].MSG_TYPES = {}
                   \/ Registry[i].MSG_SUBTYPES \cap Registry[j].MSG_SUBTYPES = {}
    /\ (parsed # NoResult /\ ~Raised(_parse_message(raw_message)))
       => /\ Cardinality(Matches(raw_message[3], raw_message[4])) <= 1
          /\ parsed.exc = "none"
             => \A i \in Matches(raw_message[3], raw_message[4]) :
                   parsed.value.type = Registry[i].klass

\* C36 witness: an arm-home command to the panel has been decoded
C36_Witness ==
    /\ parsed # NoResult
    /\ parsed.exc = "none"
    /\ parsed.value.type = "ArmHomeMessage"
    /\ raw_message[3] = "a"
    /\ Matches(raw_message[3], raw_message[4]) # {}

(***************************************************************************)
(* Properties of the taxonomy, checked under EventsSpec.                   *)
(***************************************************************************)
\* the event kinds: the classes that state a code of their own
KnownKinds == DOMAIN OwnCODE \ {"SystemEvent"}

\* C7: the event looked up for a code is an instance of exactly the kind
\* that has the code, with the kind's name and the subject given, and an
\* UnknownEvent with the code and the subject when no kind has the code;
\* code 0 gives a Perimeter Alarm.
C7_ExactKindForCode ==
    event # NoResult =>
        /\ \A k \in KnownKinds :
              CODE(k) = event_code =>
                  /\ event.cls = k
                  /\ event.NAME = NAME(k)
                  /\ event.zone_or_user = zone_or_user
        /\ (\A k \in KnownKinds : CODE(k) # event_code) =>
              event = UnknownEvent(event_code, zone_or_user)
        /\ event_code = 0 => event.NAME = "Perimeter Alarm"

\* C8: at most one of the classes event_for_code matches the code against
\* has the code looked up.
C8_CodesDistinct ==
    \A i, j \in DOMAIN MatchedKinds :
        (/\ CODE(MatchedKinds[i]) = event_code
         /\ CODE(MatchedKinds[j]) = event_code)
        => i = j
====
